---------------------------- MODULE Spec2Model ----------------------------
(***************************************************************************)
(* Scope-conformance test engine of sample_apps/oauth: the token claims    *)
(* decoder (tests/utils.py), the resource resolvers (the team_id, group_id *)
(* and user_id fixtures) and the scope-check test cases of the four test   *)
(* modules, run as one pytest session against a backend whose answers are  *)
(* chosen nondeterministically.                                            *)
(*                                                                         *)
(* Text is a sequence of one-character strings; bytes are 0..255.          *)
(* Python values are records [t |-> tag, v |-> payload] with tags "null"   *)
(* (None), "bool", "num" (v: the literal's text), "str" (v: characters),   *)
(* "list" (v: values) and "dict" (v: <<[k, val], ...>> in document order). *)
(***************************************************************************)
EXTENDS Integers, Sequences, FiniteSets, TLC

\* ------------------------------------------------------------------------
\* Characters

\* chr(0..127); control characters without a TLA+ escape are lumped or renamed:
\* "<WS>" for those str.isspace() accepts (0x0b, 0x1c..0x1f), "<BS>" for
\* 0x08, "<CTL>" for the rest, "<DEL>" for 0x7f, "<BQ>" for the backquote.
Ascii ==
  <<
    "<CTL>", "<CTL>", "<CTL>", "<CTL>", "<CTL>", "<CTL>", "<CTL>", "<CTL>",
    "<BS>", "\t", "\n", "<WS>", "\f", "\r", "<CTL>", "<CTL>",
    "<CTL>", "<CTL>", "<CTL>", "<CTL>", "<CTL>", "<CTL>", "<CTL>", "<CTL>",
    "<CTL>", "<CTL>", "<CTL>", "<CTL>", "<WS>", "<WS>", "<WS>", "<WS>",
    " ", "!", "\"", "#", "$", "%", "&", "'",
    "(", ")", "*", "+", ",", "-", ".", "/",
    "0", "1", "2", "3", "4", "5", "6", "7",
    "8", "9", ":", ";", "<", "=", ">", "?",
    "@", "A", "B", "C", "D", "E", "F", "G",
    "H", "I", "J", "K", "L", "M", "N", "O",
    "P", "Q", "R", "S", "T", "U", "V", "W",
    "X", "Y", "Z", "[", "\\", "]", "^", "_",
    "<BQ>", "a", "b", "c", "d", "e", "f", "g",
    "h", "i", "j", "k", "l", "m", "n", "o",
    "p", "q", "r", "s", "t", "u", "v", "w",
    "x", "y", "z", "{", "|", "}", "~", "<DEL>"
  >>

\* A character above U+007F: one that str.isspace() accepts, or any other.
NonAsciiSpace == "<U+WS>"

NonAscii == "<U+>"

\* The code points above U+007F that str.isspace() accepts.
UnicodeSpaces ==
  {133, 160, 5760, 8232, 8233, 8239, 8287, 12288} \cup (8192..8202)

\* chr(cp)
Chr(cp) ==
  IF cp < 128 THEN Ascii[cp + 1]
  ELSE IF cp \in UnicodeSpaces THEN NonAsciiSpace
  ELSE NonAscii

ControlChars == {"<CTL>", "<BS>", "<WS>", "\t", "\n", "\f", "\r"}

Digits == {"0", "1", "2", "3", "4", "5", "6", "7", "8", "9"}

\* The characters str.split() and str.strip() treat as whitespace.
PyWhitespace == {" ", "\t", "\n", "\r", "\f", "<WS>", NonAsciiSpace}

\* The whitespace json.loads skips between tokens.
JsonWhitespace == {" ", "\t", "\n", "\r"}

\* ------------------------------------------------------------------------
\* Python values

NoneV == [t |-> "null", v |-> <<>>]

StrV(s) == [t |-> "str", v |-> s]

\* Whether the text of a JSON number denotes zero (0, -0, 0.0, 0e5, ...).
RECURSIVE IsZeroNum(_)
IsZeroNum(txt) ==
  IF txt = <<>> THEN TRUE
  ELSE IF Head(txt) \in {"e", "E"} THEN TRUE
  ELSE IF Head(txt) \in (Digits \ {"0"}) \cup {"N", "I"} THEN FALSE
  ELSE IsZeroNum(Tail(txt))

\* bool(x)
Truthy(x) ==
  CASE x.t = "null" -> FALSE
    [] x.t = "bool" -> x.v
    [] x.t = "num"  -> ~IsZeroNum(x.v)
    [] OTHER        -> Len(x.v) > 0

\* a or b
PyOr(a, b) == IF Truthy(a) THEN a ELSE b

\* d.get(key, default) on a dict value: the last pair of that key wins.
RECURSIVE DictGetFrom(_, _, _, _)
DictGetFrom(pairs, i, key, default) ==
  IF i = 0 THEN default
  ELSE IF pairs[i].k = key THEN pairs[i].val
  ELSE DictGetFrom(pairs, i - 1, key, default)

DictGet(d, key, default) == DictGetFrom(d.v, Len(d.v), key, default)

DictHas(d, key) == \E i \in 1..Len(d.v) : d.v[i].k = key

\* ------------------------------------------------------------------------
\* base64.b64decode(payload).decode('utf-8')

B64Chars ==
  <<
    "A", "B", "C", "D", "E", "F", "G", "H", "I", "J", "K", "L", "M", "N", "O", "P",
    "Q", "R", "S", "T", "U", "V", "W", "X", "Y", "Z", "a", "b", "c", "d", "e", "f",
    "g", "h", "i", "j", "k", "l", "m", "n", "o", "p", "q", "r", "s", "t", "u", "v",
    "w", "x", "y", "z", "0", "1", "2", "3", "4", "5", "6", "7", "8", "9", "+", "/"
  >>

B64Set == {B64Chars[i] : i \in DOMAIN B64Chars}

\* The 6-bit value of a base64 character.
B64Index(c) == (CHOOSE i \in DOMAIN B64Chars : B64Chars[i] = c) - 1

Raised(kind) == [ok |-> FALSE, err |-> kind, val |-> <<>>]

Returned(x) == [ok |-> TRUE, err |-> "", val |-> x]

\* One turn of binascii.a2b_base64's loop (no strict_mode) on character
\* ch: characters outside the alphabet are skipped, a completed run of '='
\* ends the input ("goto done"), and a data character of 6-bit value c
\* (a2b_data) fills the current quad.
a2b_data(st, c) ==
  CASE st.quad_pos = 0 ->
         [st EXCEPT !.quad_pos = 1, !.leftchar = c, !.pads = 0]
    [] st.quad_pos = 1 ->
         [st EXCEPT !.quad_pos = 2, !.leftchar = c % 16, !.pads = 0,
                    !.out = Append(@, st.leftchar * 4 + c \div 16)]
    [] st.quad_pos = 2 ->
         [st EXCEPT !.quad_pos = 3, !.leftchar = c % 4, !.pads = 0,
                    !.out = Append(@, st.leftchar * 16 + c \div 4)]
    [] OTHER ->
         [st EXCEPT !.quad_pos = 0, !.leftchar = 0, !.pads = 0,
                    !.out = Append(@, st.leftchar * 64 + c)]

a2b_step(st, ch) ==
  IF st.done THEN st
  ELSE IF ch = "="
  THEN IF st.quad_pos >= 2 /\ st.quad_pos + st.pads + 1 >= 4
       THEN [st EXCEPT !.done = TRUE]
       ELSE IF st.quad_pos >= 2 THEN [st EXCEPT !.pads = @ + 1] ELSE st
  ELSE IF ch \notin B64Set THEN st
  ELSE a2b_data(st, B64Index(ch))

\* binascii.a2b_base64's loop, turn by turn over the indices lo..hi. The range is split in
\* halves and the state after the first half is evaluated (left = left)
\* before the second half starts: the evaluation depth stays logarithmic.
RECURSIVE a2b_loop(_, _, _, _)
a2b_loop(s, lo, hi, st) ==
  IF lo > hi THEN st
  ELSE IF lo = hi THEN a2b_step(st, s[lo])
  ELSE LET mid == (lo + hi) \div 2
           left == a2b_loop(s, lo, mid, st)
       IN IF left = left THEN a2b_loop(s, mid + 1, hi, left) ELSE left

\* binascii.a2b_base64(s): data that stops inside a quad is an error.
a2b_result(st) ==
  IF ~st.done /\ st.quad_pos # 0
  THEN Raised("binascii.Error")
  ELSE Returned(st.out)

a2b_base64(s) ==
  a2b_result(a2b_loop(s, 1, Len(s),
                      [quad_pos |-> 0, leftchar |-> 0, pads |-> 0,
                       out |-> <<>>, done |-> FALSE]))

\* base64.b64decode(s) of a str: non-ASCII text is a ValueError.
b64decode(s) ==
  IF \E i \in DOMAIN s : s[i] \in {NonAscii, NonAsciiSpace}
  THEN Raised("ValueError")
  ELSE a2b_base64(s)

\* The allowed range of the byte after lead byte b (UTF-8, RFC 3629).
Utf8Second(b) ==
  CASE b = 224 -> 160..191
    [] b = 237 -> 128..159
    [] b = 240 -> 144..191
    [] b = 244 -> 128..143
    [] OTHER   -> 128..191

\* The number of continuation bytes lead byte b announces, 0 when b is no
\* lead byte.
Utf8More(b) ==
  IF b \in 194..223 THEN 1
  ELSE IF b \in 224..239 THEN 2
  ELSE IF b \in 240..244 THEN 3
  ELSE 0

\* One turn of the UTF-8 decoder on byte b: need counts the continuation
\* bytes still due, range is where the next one must lie, cp collects the
\* code point.
utf8_lead(st, b, more) ==
  IF more = 0 THEN [st EXCEPT !.ok = FALSE]
  ELSE [st EXCEPT !.need = more, !.range = Utf8Second(b),
                  !.cp = b - (CASE more = 1 -> 192
                                [] more = 2 -> 224
                                [] OTHER -> 240)]

utf8_continue(st, cp) ==
  [st EXCEPT !.need = @ - 1, !.range = 128..191, !.cp = cp,
             !.acc = IF st.need = 1 THEN Append(@, Chr(cp)) ELSE @]

utf8_step(st, b) ==
  IF ~st.ok THEN st
  ELSE IF st.need > 0
  THEN IF b \notin st.range THEN [st EXCEPT !.ok = FALSE]
       ELSE utf8_continue(st, st.cp * 64 + (b - 128))
  ELSE IF b < 128 THEN [st EXCEPT !.acc = Append(@, Chr(b))]
  ELSE utf8_lead(st, b, Utf8More(b))

\* The UTF-8 decoder, turn by turn over the indices lo..hi. The range is split in
\* halves and the state after the first half is evaluated (left = left)
\* before the second half starts: the evaluation depth stays logarithmic.
RECURSIVE utf8_loop(_, _, _, _)
utf8_loop(s, lo, hi, st) ==
  IF lo > hi THEN st
  ELSE IF lo = hi THEN utf8_step(st, s[lo])
  ELSE LET mid == (lo + hi) \div 2
           left == utf8_loop(s, lo, mid, st)
       IN IF left = left THEN utf8_loop(s, mid + 1, hi, left) ELSE left

\* bytes.decode('utf-8')
utf8_result(st) ==
  IF st.ok /\ st.need = 0
  THEN Returned(st.acc)
  ELSE Raised("UnicodeDecodeError")

utf8_decode(bs) ==
  utf8_result(utf8_loop(bs, 1, Len(bs),
                        [need |-> 0, range |-> 128..191, cp |-> 0,
                         acc |-> <<>>, ok |-> TRUE]))
\* ------------------------------------------------------------------------
\* json.loads

ParseFail == [ok |-> FALSE, val |-> NoneV, next |-> 0]

Parsed(x, n) == [ok |-> TRUE, val |-> x, next |-> n]

RECURSIVE SkipWs(_, _)
SkipWs(s, i) ==
  IF i <= Len(s) /\ s[i] \in JsonWhitespace THEN SkipWs(s, i + 1) ELSE i

MatchAt(s, i, lit) ==
  /\ i + Len(lit) - 1 <= Len(s)
  /\ SubSeq(s, i, i + Len(lit) - 1) = lit

HexChars ==
  <<"0", "1", "2", "3", "4", "5", "6", "7", "8", "9",
    "a", "b", "c", "d", "e", "f", "A", "B", "C", "D", "E", "F">>

IsHex(c) == \E i \in DOMAIN HexChars : HexChars[i] = c

HexVal(c) ==
  LET i == CHOOSE j \in DOMAIN HexChars : HexChars[j] = c
  IN IF i <= 16 THEN i - 1 ELSE i - 7

\* The character a backslash escape \c stands for.
Unescape(c) ==
  CASE c = "b" -> "<BS>"
    [] c = "f" -> "\f"
    [] c = "n" -> "\n"
    [] c = "r" -> "\r"
    [] c = "t" -> "\t"
    [] OTHER   -> c

\* One turn of json.decoder.scanstring (strict) on s[i]: mode "chars"
\* reads plain characters, "esc" the character after a backslash, "u" the
\* four hex digits of \uXXXX; sur says that the previous character was a
\* high surrogate escape, which a low surrogate escape right after it joins
\* into one character; end is the index after the closing quote.
scanstring_hex(st, cp) ==
  IF st.hex < 3 THEN [st EXCEPT !.hex = @ + 1, !.cp = cp]
  ELSE IF st.sur /\ cp \in 56320..57343
  THEN [st EXCEPT !.mode = "chars", !.sur = FALSE]
  ELSE [st EXCEPT !.mode = "chars", !.sur = cp \in 55296..56319,
                  !.acc = Append(@, Chr(cp))]

scanstring_step(s, st, i) ==
  IF st.end # 0 \/ ~st.ok THEN st
  ELSE IF st.mode = "chars"
  THEN IF s[i] = "\"" THEN [st EXCEPT !.end = i + 1]
       ELSE IF s[i] \in ControlChars THEN [st EXCEPT !.ok = FALSE]
       ELSE IF s[i] = "\\" THEN [st EXCEPT !.mode = "esc"]
       ELSE [st EXCEPT !.acc = Append(@, s[i]), !.sur = FALSE]
  ELSE IF st.mode = "esc"
  THEN IF s[i] \in {"\"", "\\", "/", "b", "f", "n", "r", "t"}
       THEN [st EXCEPT !.mode = "chars", !.sur = FALSE,
                       !.acc = Append(@, Unescape(s[i]))]
       ELSE IF s[i] = "u" THEN [st EXCEPT !.mode = "u", !.hex = 0, !.cp = 0]
       ELSE [st EXCEPT !.ok = FALSE]
  ELSE IF ~IsHex(s[i]) THEN [st EXCEPT !.ok = FALSE]
  ELSE scanstring_hex(st, st.cp * 16 + HexVal(s[i]))

\* json.decoder.scanstring, turn by turn over the indices lo..hi. The range is split in
\* halves and the state after the first half is evaluated (left = left)
\* before the second half starts: the evaluation depth stays logarithmic.
RECURSIVE scanstring_loop(_, _, _, _)
scanstring_loop(s, lo, hi, st) ==
  IF lo > hi THEN st
  ELSE IF lo = hi THEN scanstring_step(s, st, lo)
  ELSE LET mid == (lo + hi) \div 2
           left == scanstring_loop(s, lo, mid, st)
       IN IF left = left THEN scanstring_loop(s, mid + 1, hi, left) ELSE left

\* json.decoder.scanstring: s[i] is the first character after the opening
\* quote; an unterminated string is an error.
scanstring_result(st) ==
  IF st.ok /\ st.end # 0 THEN Parsed(st.acc, st.end) ELSE ParseFail

ScanString(s, i) ==
  scanstring_result(
    scanstring_loop(s, i, Len(s),
                    [mode |-> "chars", hex |-> 0, cp |-> 0, sur |-> FALSE,
                     acc |-> <<>>, end |-> 0, ok |-> TRUE]))

RECURSIVE DigitsEnd(_, _)
DigitsEnd(s, i) ==
  IF i <= Len(s) /\ s[i] \in Digits THEN DigitsEnd(s, i + 1) ELSE i

\* json.scanner NUMBER_RE, matched at i:
\* (-?(?:0|[1-9]\d*))(\.\d+)?([eE][-+]?\d+)? ; 0 when there is no match,
\* else the index after the match. NumberExp: the exponent, whose digits
\* would start at expDigits; NumberFrac: what follows the fraction;
\* NumberInt: what follows the integer part; NumberDigits: the integer
\* part, after the sign.
NumberExp(s, fracEnd, expDigits) ==
  IF expDigits <= Len(s) /\ s[expDigits] \in Digits
  THEN DigitsEnd(s, expDigits)
  ELSE fracEnd

NumberFrac(s, fracEnd) ==
  IF fracEnd <= Len(s) /\ s[fracEnd] \in {"e", "E"}
  THEN NumberExp(s, fracEnd,
                 IF fracEnd + 1 <= Len(s) /\ s[fracEnd + 1] \in {"+", "-"}
                 THEN fracEnd + 2
                 ELSE fracEnd + 1)
  ELSE fracEnd

NumberInt(s, intEnd) ==
  NumberFrac(s, IF /\ intEnd + 1 <= Len(s)
                   /\ s[intEnd] = "."
                   /\ s[intEnd + 1] \in Digits
                THEN DigitsEnd(s, intEnd + 1)
                ELSE intEnd)

NumberDigits(s, j) ==
  IF j > Len(s) \/ s[j] \notin Digits THEN 0
  ELSE NumberInt(s, IF s[j] = "0" THEN j + 1 ELSE DigitsEnd(s, j))

NumberEnd(s, i) ==
  NumberDigits(s, IF i <= Len(s) /\ s[i] = "-" THEN i + 1 ELSE i)

RECURSIVE ScanOnce(_, _)
RECURSIVE JSONObject(_, _, _)
RECURSIVE JSONArray(_, _, _)

\* json.decoder.JSONObject after '{' and whitespace: s[i] opens a key.
\* ObjectKey continues after the key, ObjectColon at the first character
\* after it that is no whitespace, ObjectValue after the value, ObjectNext
\* at the first character after the value that is no whitespace.
ObjectNext(s, e, more) ==
  IF e > Len(s) THEN ParseFail
  ELSE IF s[e] = "}" THEN Parsed([t |-> "dict", v |-> more], e + 1)
  ELSE IF s[e] = "," THEN JSONObject(s, SkipWs(s, e + 1), more)
  ELSE ParseFail

ObjectValue(s, pairs, key, value) ==
  IF ~value.ok THEN ParseFail
  ELSE ObjectNext(s, SkipWs(s, value.next),
                  Append(pairs, [k |-> key.val, val |-> value.val]))

ObjectColon(s, pairs, key, colon) ==
  IF colon > Len(s) \/ s[colon] # ":" THEN ParseFail
  ELSE ObjectValue(s, pairs, key, ScanOnce(s, SkipWs(s, colon + 1)))

ObjectKey(s, pairs, key) ==
  IF ~key.ok THEN ParseFail
  ELSE ObjectColon(s, pairs, key, SkipWs(s, key.next))

JSONObject(s, i, pairs) ==
  IF i > Len(s) \/ s[i] # "\"" THEN ParseFail
  ELSE ObjectKey(s, pairs, ScanString(s, i + 1))

\* json.decoder.JSONArray after '[' and whitespace: s[i] opens a value.
\* ArrayValue continues after the value, ArrayNext at the first character
\* after it that is no whitespace.
ArrayNext(s, e, more) ==
  IF e > Len(s) THEN ParseFail
  ELSE IF s[e] = "]" THEN Parsed([t |-> "list", v |-> more], e + 1)
  ELSE IF s[e] = "," THEN JSONArray(s, SkipWs(s, e + 1), more)
  ELSE ParseFail

ArrayValue(s, items, value) ==
  IF ~value.ok THEN ParseFail
  ELSE ArrayNext(s, SkipWs(s, value.next), Append(items, value.val))

JSONArray(s, i, items) == ArrayValue(s, items, ScanOnce(s, i))

\* json.scanner.py_make_scanner's _scan_once: one value starting at s[i].
\* ScanText: a string; ScanObject, ScanArray: after the bracket and
\* whitespace; ScanNumber: a NUMBER_RE match up to end, or one of the
\* constants NaN, Infinity, -Infinity.
ScanText(str) ==
  IF str.ok THEN Parsed(StrV(str.val), str.next) ELSE ParseFail

ScanObject(s, j) ==
  IF j <= Len(s) /\ s[j] = "}"
  THEN Parsed([t |-> "dict", v |-> <<>>], j + 1)
  ELSE JSONObject(s, j, <<>>)

ScanArray(s, j) ==
  IF j <= Len(s) /\ s[j] = "]"
  THEN Parsed([t |-> "list", v |-> <<>>], j + 1)
  ELSE JSONArray(s, j, <<>>)

ScanNumber(s, i, end) ==
  IF end # 0
  THEN Parsed([t |-> "num", v |-> SubSeq(s, i, end - 1)], end)
  ELSE IF MatchAt(s, i, <<"N", "a", "N">>)
  THEN Parsed([t |-> "num", v |-> <<"N", "a", "N">>], i + 3)
  ELSE IF MatchAt(s, i, <<"I", "n", "f", "i", "n", "i", "t", "y">>)
  THEN Parsed([t |-> "num", v |-> SubSeq(s, i, i + 7)], i + 8)
  ELSE IF MatchAt(s, i, <<"-", "I", "n", "f", "i", "n", "i", "t", "y">>)
  THEN Parsed([t |-> "num", v |-> SubSeq(s, i, i + 8)], i + 9)
  ELSE ParseFail

ScanOnce(s, i) ==
  IF i > Len(s) THEN ParseFail
  ELSE IF s[i] = "\"" THEN ScanText(ScanString(s, i + 1))
  ELSE IF s[i] = "{" THEN ScanObject(s, SkipWs(s, i + 1))
  ELSE IF s[i] = "[" THEN ScanArray(s, SkipWs(s, i + 1))
  ELSE IF MatchAt(s, i, <<"n", "u", "l", "l">>)
  THEN Parsed(NoneV, i + 4)
  ELSE IF MatchAt(s, i, <<"t", "r", "u", "e">>)
  THEN Parsed([t |-> "bool", v |-> TRUE], i + 4)
  ELSE IF MatchAt(s, i, <<"f", "a", "l", "s", "e">>)
  THEN Parsed([t |-> "bool", v |-> FALSE], i + 5)
  ELSE ScanNumber(s, i, NumberEnd(s, i))

\* json.loads(text): one value with nothing but whitespace around it.
json_result(text, r) ==
  IF r.ok /\ SkipWs(text, r.next) = Len(text) + 1
  THEN Returned(r.val)
  ELSE Raised("JSONDecodeError")

json_loads(text) == json_result(text, ScanOnce(text, SkipWs(text, 1)))
\* ------------------------------------------------------------------------
\* str methods

\* One turn of s.split(sep) on character ch: parts are the pieces closed so
\* far, cur the piece being read.
split_on_step(st, ch) ==
  IF ch = st.sep
  THEN [st EXCEPT !.parts = Append(@, st.cur), !.cur = <<>>]
  ELSE [st EXCEPT !.cur = Append(@, ch)]

\* s.split(sep), turn by turn over the indices lo..hi. The range is split in
\* halves and the state after the first half is evaluated (left = left)
\* before the second half starts: the evaluation depth stays logarithmic.
RECURSIVE split_on_loop(_, _, _, _)
split_on_loop(s, lo, hi, st) ==
  IF lo > hi THEN st
  ELSE IF lo = hi THEN split_on_step(st, s[lo])
  ELSE LET mid == (lo + hi) \div 2
           left == split_on_loop(s, lo, mid, st)
       IN IF left = left THEN split_on_loop(s, mid + 1, hi, left) ELSE left

\* s.split(sep) for a one-character sep: always at least one part.
split_on_result(st) == Append(st.parts, st.cur)

str_split_on(s, sep) ==
  split_on_result(split_on_loop(s, 1, Len(s),
                                [sep |-> sep, parts |-> <<>>, cur |-> <<>>]))

\* s.replace(old, new) for one-character old and new.
str_replace(s, old, new) == [i \in DOMAIN s |-> IF s[i] = old THEN new ELSE s[i]]

\* c * n
Repeat(c, n) == [i \in 1..n |-> c]

\* s.strip()
RECURSIVE str_lstrip(_)
str_lstrip(s) ==
  IF s # <<>> /\ Head(s) \in PyWhitespace THEN str_lstrip(Tail(s)) ELSE s

RECURSIVE str_rstrip(_)
str_rstrip(s) ==
  IF s # <<>> /\ s[Len(s)] \in PyWhitespace
  THEN str_rstrip(SubSeq(s, 1, Len(s) - 1))
  ELSE s

str_strip(s) == str_rstrip(str_lstrip(s))

\* One turn of s.split() on character ch: words are the runs closed so
\* far, cur the run being read.
split_step(st, ch) ==
  IF ch \in PyWhitespace
  THEN [words |-> IF st.cur = <<>> THEN st.words ELSE Append(st.words, st.cur),
        cur |-> <<>>]
  ELSE [st EXCEPT !.cur = Append(@, ch)]

\* s.split(), turn by turn over the indices lo..hi. The range is split in
\* halves and the state after the first half is evaluated (left = left)
\* before the second half starts: the evaluation depth stays logarithmic.
RECURSIVE split_loop(_, _, _, _)
split_loop(s, lo, hi, st) ==
  IF lo > hi THEN st
  ELSE IF lo = hi THEN split_step(st, s[lo])
  ELSE LET mid == (lo + hi) \div 2
           left == split_loop(s, lo, mid, st)
       IN IF left = left THEN split_loop(s, mid + 1, hi, left) ELSE left

\* s.split(): the maximal runs of non-whitespace characters, in order.
split_result(st) ==
  IF st.cur = <<>> THEN st.words ELSE Append(st.words, st.cur)

\* A split on single spaces only, as scope_string.split(' ') would do.
SplitOnSpace(s) == str_split_on(s, " ")

str_split(s) ==
  split_result(split_loop(s, 1, Len(s), [words |-> <<>>, cur |-> <<>>]))

\* ------------------------------------------------------------------------
\* tests/utils.py: the token claims decoder

KeyScope == <<"s", "c", "o", "p", "e">>

KeyOrgId == <<"o", "r", "g", "_", "i", "d">>

KeyOrgIdAlt == <<"o", "r", "g", "I", "d">>

\* padding = 4 - (len(payload) % 4); if padding != 4: payload += '=' * padding
AddPadding(payload, padding) ==
  IF padding # 4 THEN payload \o Repeat("=", padding) ELSE payload

PadPayload(payload) == AddPadding(payload, 4 - (Len(payload) % 4))

\* payload.replace('-', '+').replace('_', '/')
RestoreAlphabet(payload) == str_replace(str_replace(payload, "-", "+"), "_", "/")

\* base64.b64decode(payload).decode('utf-8') then json.loads: the claims
\* mapping, or the exception the try block catches. DecodeBytes continues
\* after b64decode, DecodeText after decode('utf-8').
DecodeText(text) == IF text.ok THEN json_loads(text.val) ELSE text

DecodeBytes(raw) == IF raw.ok THEN DecodeText(utf8_decode(raw.val)) ELSE raw

DecodePayload(payload) ==
  DecodeBytes(b64decode(RestoreAlphabet(PadPayload(payload))))

\* [s.strip() for s in scope_string.split() if s.strip()]
StripEach(kept) == [i \in DOMAIN kept |-> str_strip(kept[i])]

StrippedWords(scope_string) ==
  StripEach(SelectSeq(str_split(scope_string), LAMBDA w : str_strip(w) # <<>>))

\* What a call did: the value returned, the exception the except clause
\* caught ("" when none) and whether it printed a diagnostic.
Outcome(ret, caught, printed) ==
  [ret |-> ret, caught |-> caught, printed |-> printed]

\* token.split('.')
TokenParts(token) == str_split_on(token, ".")

\* get_scopes_from_token: ScopesOfParts continues after token.split('.'),
\* ScopesOfPayload after the payload is decoded, ScopesOfClaim after
\* payload_data.get('scope', '').
ScopesOfClaim(scope_string) ==
  IF ~Truthy(scope_string) \/ scope_string.t # "str"
  THEN Outcome(<<>>, "", FALSE)
  ELSE Outcome(StrippedWords(scope_string.v), "", FALSE)

ScopesOfPayload(payload_data) ==
  IF ~payload_data.ok THEN Outcome(<<>>, payload_data.err, TRUE)
  ELSE IF payload_data.val.t # "dict"
  THEN Outcome(<<>>, "AttributeError", TRUE)
  ELSE ScopesOfClaim(DictGet(payload_data.val, KeyScope, StrV(<<>>)))

\* The scopes read from the first segment of the token, parts[0].
ScopesOfHeader(parts) ==
  IF Len(parts) # 3 THEN Outcome(<<>>, "", FALSE)
  ELSE ScopesOfPayload(DecodePayload(parts[1]))

ScopesOfParts(parts) ==
  IF Len(parts) # 3 THEN Outcome(<<>>, "", FALSE)
  ELSE ScopesOfPayload(DecodePayload(parts[2]))

get_scopes_from_token_run(token) ==
  IF token = <<>> \/ \A i \in DOMAIN token : token[i] # "."
  THEN Outcome(<<>>, "", FALSE)
  ELSE ScopesOfParts(TokenParts(token))

get_scopes_from_token(token) == get_scopes_from_token_run(token).ret

\* required_scope in scopes
Contains(scopes, required_scope) ==
  \E i \in DOMAIN scopes : scopes[i] = required_scope

has_scope(token, required_scope) ==
  Contains(get_scopes_from_token(token), required_scope)

\* get_org_id_from_token: OrgIdOfParts continues after token.split('.'),
\* OrgIdOfPayload after the payload is decoded.
OrgIdOfPayload(payload_data) ==
  IF ~payload_data.ok THEN Outcome(NoneV, payload_data.err, FALSE)
  ELSE IF payload_data.val.t # "dict"
  THEN Outcome(NoneV, "AttributeError", FALSE)
  ELSE Outcome(PyOr(DictGet(payload_data.val, KeyOrgId, NoneV),
                    DictGet(payload_data.val, KeyOrgIdAlt, NoneV)),
               "", FALSE)

OrgIdOfParts(parts) ==
  IF Len(parts) # 3 THEN Outcome(NoneV, "", FALSE)
  ELSE OrgIdOfPayload(DecodePayload(parts[2]))

get_org_id_from_token_run(token) ==
  IF token = <<>> \/ \A i \in DOMAIN token : token[i] # "."
  THEN Outcome(NoneV, "", FALSE)
  ELSE OrgIdOfParts(TokenParts(token))

get_org_id_from_token(token) == get_org_id_from_token_run(token).ret
\* ------------------------------------------------------------------------
\* The token issuer (the backend's side of the token claim format): a JSON
\* claims object, base64 in the middle of three '.'-separated segments.

\* ord(c) of an ASCII character.
Ord(c) == (CHOOSE i \in DOMAIN Ascii : Ascii[i] = c) - 1

\* The concatenation of seqs[lo..hi], by halves.
RECURSIVE ConcatRange(_, _, _)
ConcatRange(seqs, lo, hi) ==
  IF lo > hi THEN <<>>
  ELSE IF lo = hi THEN seqs[lo]
  ELSE ConcatRange(seqs, lo, (lo + hi) \div 2)
       \o ConcatRange(seqs, ((lo + hi) \div 2) + 1, hi)

\* The concatenation of a sequence of sequences.
Concat(seqs) == ConcatRange(seqs, 1, Len(seqs))

\* One character inside a JSON string literal, as json.dumps writes it.
JsonEscape(c) ==
  CASE c = "\"" -> <<"\\", "\"">>
    [] c = "\\" -> <<"\\", "\\">>
    [] c = "\t" -> <<"\\", "t">>
    [] c = "\n" -> <<"\\", "n">>
    [] OTHER    -> <<c>>

\* json.dumps of a str
JsonString(s) ==
  <<"\"">> \o Concat([i \in DOMAIN s |-> JsonEscape(s[i])]) \o <<"\"">>

\* json.dumps of a dict given as <<[k |-> key, txt |-> JSON text>>, ...>>:
\* {"k1": v1, "k2": v2}
JsonObjectText(members) ==
  <<"{">>
  \o Concat([i \in DOMAIN members |->
               (IF i > 1 THEN <<",", " ">> ELSE <<>>)
               \o JsonString(members[i].k) \o <<":", " ">> \o members[i].txt])
  \o <<"}">>

\* The bytes of ASCII text.
AsciiBytes(text) == [i \in DOMAIN text |-> Ord(text[i])]

\* base64.b64encode(bs): four characters per three bytes, '=' padded.
B64Encode(bs) ==
  LET n == Len(bs)
      Byte(j) == IF j <= n THEN bs[j] ELSE 0
      Sextet(q, k) ==
        CASE k = 1 -> Byte(3 * q + 1) \div 4
          [] k = 2 -> (Byte(3 * q + 1) % 4) * 16 + Byte(3 * q + 2) \div 16
          [] k = 3 -> (Byte(3 * q + 2) % 16) * 4 + Byte(3 * q + 3) \div 64
          [] OTHER -> Byte(3 * q + 3) % 64
      Has(q, k) == 3 * q + k - 1 <= n
  IN [i \in 1..(4 * ((n + 2) \div 3)) |->
        LET q == (i - 1) \div 4
            k == ((i - 1) % 4) + 1
        IN IF Has(q, k) THEN B64Chars[Sextet(q, k) + 1] ELSE "="]

\* base64url without padding (the JWT form) or standard base64 with it.
EncodeSegment(text, encoding) ==
  LET std == B64Encode(AsciiBytes(text))
  IN IF encoding = "standard" THEN std
     ELSE str_replace(str_replace(SelectSeq(std, LAMBDA c : c # "="),
                                  "+", "-"), "/", "_")

TokenHeader == <<"h", "d", "r">>

TokenSignature == <<"s", "i", "g">>

\* header.payload.signature
JoinToken(payload) == TokenHeader \o <<".">> \o payload \o <<".">> \o TokenSignature

\* ------------------------------------------------------------------------
\* The tokens the issuer may hand out, well-formed and damaged

\* The most scope strings in one scope claim.
MaxScopes == 3

\* The most base64 characters a truncation removes from the payload.
MaxCut == 3

ScopeWords == {<<"a">>, <<"b">>, <<"c">>}

RECURSIVE WordLists(_)
WordLists(n) ==
  IF n = 0 THEN {<<>>}
  ELSE WordLists(n - 1)
       \cup {Append(ws, w) : ws \in {x \in WordLists(n - 1) : Len(x) = n - 1},
                             w \in ScopeWords}

\* How the scope strings are laid out in the scope claim: what separates
\* them and what surrounds them.
Layouts == {"single", "double", "tab", "padded"}

Separator(layout) ==
  CASE layout = "double" -> <<" ", " ">>
    [] layout = "tab"    -> <<"\t">>
    [] layout = "padded" -> <<" ", "\n", " ">>
    [] OTHER             -> <<" ">>

Margin(layout) == IF layout = "padded" THEN <<" ", " ">> ELSE <<>>

ScopeString(words, layout) ==
  Margin(layout)
  \o Concat([i \in DOMAIN words |->
               (IF i > 1 THEN Separator(layout) ELSE <<>>) \o words[i]])
  \o Margin(layout)

\* A claim of the payload: absent, or present with a JSON value.
Absent == [has |-> FALSE, val |-> NoneV]

Present(x) == [has |-> TRUE, val |-> x]

NumV(txt) == [t |-> "num", v |-> txt]

BoolV(b) == [t |-> "bool", v |-> b]

\* The values an organization claim is issued with.
OrgValues ==
  <<Absent, Present(StrV(<<"X">>)), Present(StrV(<<"Y", "2">>)),
    Present(StrV(<<>>)), Present(NoneV), Present(NumV(<<"0">>)),
    Present(NumV(<<"1", "2", "3">>)), Present(BoolV(FALSE))>>

\* The values a scope claim is issued with when it is not a string of words.
OddScopeValues ==
  <<Absent, Present(NoneV), Present(NumV(<<"5">>)), Present(BoolV(TRUE)),
    Present(StrV(<<>>))>>

\* json.dumps of a claim value (null, bool, number or string).
JsonText(x) ==
  CASE x.t = "null" -> <<"n", "u", "l", "l">>
    [] x.t = "bool" -> IF x.v THEN <<"t", "r", "u", "e">>
                       ELSE <<"f", "a", "l", "s", "e">>
    [] x.t = "num"  -> x.v
    [] OTHER        -> JsonString(x.v)

\* Payload texts that are JSON but no object, or no JSON at all.
OddPayloads ==
  [array |-> <<"[", "\"", "a", "\"", "]">>,
   string |-> <<"\"", "a", " ", "b", "\"">>,
   number |-> <<"1", "2">>,
   null |-> <<"n", "u", "l", "l">>,
   text |-> <<"s", "c", "o", "p", "e", "=", "a">>,
   open |-> <<"{", "\"", "s", "c", "o", "p", "e", "\"", ":">>]

\* Bytes that are not UTF-8.
BadUtf8 == <<255, 254, 123, 125>>

Encodings == {"urlsafe", "standard"}

\* What is wrong with a token: nothing ("none"); no token at all
\* ("empty"); a wrong number of segments ("nodot", "two", "four"); a
\* payload that lost its last characters ("cut1", ...), that holds a
\* character outside the base64 alphabet ("stray"), that is not UTF-8
\* ("badutf8"), or whose text is one of OddPayloads.
CutKinds == <<"cut1", "cut2", "cut3", "cut4", "cut5", "cut6">>

Cuts == {CutKinds[k] : k \in 1..MaxCut}

CutOf(damage) == CHOOSE k \in 1..MaxCut : CutKinds[k] = damage

SegmentDamage == {"empty", "nodot", "two", "four"}

PayloadDamage == Cuts \cup {"stray", "badutf8"} \cup DOMAIN OddPayloads

\* The issuer's choices for one token.
Make(words, layout, scope, org_id, orgId, encoding, damage) ==
  [words |-> words, layout |-> layout, scope |-> scope, org_id |-> org_id,
   orgId |-> orgId, encoding |-> encoding, damage |-> damage]

ClaimMembers(m) ==
  (IF m.scope.has THEN <<[k |-> KeyScope, txt |-> JsonText(m.scope.val)]>>
   ELSE <<>>)
  \o (IF m.org_id.has THEN <<[k |-> KeyOrgId, txt |-> JsonText(m.org_id.val)]>>
      ELSE <<>>)
  \o (IF m.orgId.has THEN <<[k |-> KeyOrgIdAlt, txt |-> JsonText(m.orgId.val)]>>
      ELSE <<>>)

PayloadSegment(m) ==
  LET text == IF m.damage \in DOMAIN OddPayloads THEN OddPayloads[m.damage]
              ELSE JsonObjectText(ClaimMembers(m))
      seg == IF m.damage = "badutf8" THEN B64Encode(BadUtf8)
             ELSE EncodeSegment(text, m.encoding)
      data == SelectSeq(seg, LAMBDA c : c # "=")
  IN IF m.damage \in Cuts THEN SubSeq(data, 1, Len(data) - CutOf(m.damage))
     ELSE IF m.damage = "stray"
     THEN SubSeq(seg, 1, 2) \o <<"!">> \o SubSeq(seg, 3, Len(seg))
     ELSE seg

IssueToken(m) ==
  CASE m.damage = "empty" -> <<>>
    [] m.damage = "nodot" -> PayloadSegment(m)
    [] m.damage = "two"   -> TokenHeader \o <<".">> \o PayloadSegment(m)
    [] m.damage = "four"  -> JoinToken(PayloadSegment(m)) \o <<".", "x">>
    [] OTHER              -> JoinToken(PayloadSegment(m))

WordsClaim(words, layout) == Present(StrV(ScopeString(words, layout)))

\* The tokens the decoder is tried on: every list of scope strings in every
\* layout; every pair of organization claims; every odd scope claim; every
\* kind of damage.
DecoderTokens ==
  {Make(ws, l, WordsClaim(ws, l), OrgValues[2], Absent, e, "none") :
     ws \in WordLists(MaxScopes), l \in Layouts, e \in Encodings}
  \cup {Make(<<<<"a">>, <<"b">>>>, "single", WordsClaim(<<<<"a">>, <<"b">>>>, "single"),
             OrgValues[i], OrgValues[j], e, "none") :
          i \in DOMAIN OrgValues, j \in DOMAIN OrgValues, e \in Encodings}
  \cup {Make(<<>>, "single", OddScopeValues[i], OrgValues[2], Absent, e, "none") :
          i \in DOMAIN OddScopeValues, e \in Encodings}
  \cup {Make(<<<<"a">>, <<"b">>>>, "single", WordsClaim(<<<<"a">>, <<"b">>>>, "single"),
             OrgValues[2], Absent, e, d) :
          e \in Encodings, d \in SegmentDamage \cup PayloadDamage}


\* ------------------------------------------------------------------------
\* The scope-check test cases of the four test modules, in the order pytest
\* runs them

ScopeOrgRead == <<"o", "r", "g", ":", "r", "e", "a", "d">>

ScopeOrgWrite == <<"o", "r", "g", ":", "w", "r", "i", "t", "e">>

ScopeOrgAdmin == <<"o", "r", "g", ":", "a", "d", "m", "i", "n">>

ScopeTeamRead == <<"t", "e", "a", "m", ":", "r", "e", "a", "d">>

ScopeTeamWrite == <<"t", "e", "a", "m", ":", "w", "r", "i", "t", "e">>

ScopeUsergroupRead == <<"u", "s", "e", "r", "g", "r", "o", "u", "p", ":", "r", "e", "a", "d">>

ScopeUsergroupWrite == <<"u", "s", "e", "r", "g", "r", "o", "u", "p", ":", "w", "r", "i", "t", "e">>

ScopeUserRead == <<"u", "s", "e", "r", ":", "r", "e", "a", "d">>

ScopeUserInvite == <<"u", "s", "e", "r", ":", "i", "n", "v", "i", "t", "e">>

ScopeUserWrite == <<"u", "s", "e", "r", ":", "w", "r", "i", "t", "e">>

ScopeUserDelete == <<"u", "s", "e", "r", ":", "d", "e", "l", "e", "t", "e">>

\* One test case: its module, name and kind ("works": ..._works_when_...;
\* "denied": ..._returns_denied_when_...), the scope it looks up in
\* token_scopes, the request it sends and the resource fixture it takes (""
\* when none).
Case(module, name, kind, scope, method, path, fixture) ==
  [module |-> module, name |-> name, kind |-> kind, scope |-> scope,
   method |-> method, path |-> path, fixture |-> fixture]

OrgCases ==
  <<
    Case("test_org_scopes",
         "test_get_org_works_when_token_has_org_read_scope",
         "works", ScopeOrgRead, "GET", "/api/v1/org", ""),
    Case("test_org_scopes",
         "test_get_org_returns_denied_when_token_does_not_have_org_read_scope",
         "denied", ScopeOrgRead, "GET", "/api/v1/org", ""),
    Case("test_org_scopes",
         "test_put_org_works_when_token_has_org_write_scope",
         "works", ScopeOrgWrite, "PUT", "/api/v1/org", ""),
    Case("test_org_scopes",
         "test_put_org_returns_denied_when_token_does_not_have_org_write_scope",
         "denied", ScopeOrgWrite, "PUT", "/api/v1/org", ""),
    Case("test_org_scopes",
         "test_delete_org_works_when_token_has_org_admin_scope",
         "works", ScopeOrgAdmin, "DELETE", "/api/v1/org", ""),
    Case("test_org_scopes",
         "test_delete_org_returns_denied_when_token_does_not_have_org_admin_scope",
         "denied", ScopeOrgAdmin, "DELETE", "/api/v1/org", "")
  >>

TeamsCases ==
  <<
    Case("test_teams_scopes",
         "test_get_teams_works_when_token_has_team_read_scope",
         "works", ScopeTeamRead, "GET", "/api/v1/teams?page=1&limit=10", ""),
    Case("test_teams_scopes",
         "test_get_teams_returns_denied_when_token_does_not_have_team_read_scope",
         "denied", ScopeTeamRead, "GET", "/api/v1/teams?page=1&limit=10", ""),
    Case("test_teams_scopes",
         "test_post_teams_works_when_token_has_team_write_scope",
         "works", ScopeTeamWrite, "POST", "/api/v1/teams", ""),
    Case("test_teams_scopes",
         "test_put_team_works_when_token_has_team_write_scope",
         "works", ScopeTeamWrite, "PUT", "/api/v1/teams/{team_id}", "team_id"),
    Case("test_teams_scopes",
         "test_post_teams_returns_denied_when_token_does_not_have_team_write_scope",
         "denied", ScopeTeamWrite, "POST", "/api/v1/teams", "")
  >>

UserGroupsCases ==
  <<
    Case("test_user_groups_scopes",
         "test_get_user_groups_works_when_token_has_usergroup_read_scope",
         "works", ScopeUsergroupRead, "GET", "/api/v1/userGroups", ""),
    Case("test_user_groups_scopes",
         "test_get_user_groups_returns_denied_when_token_does_not_have_usergroup_read_scope",
         "denied", ScopeUsergroupRead, "GET", "/api/v1/userGroups", ""),
    Case("test_user_groups_scopes",
         "test_post_user_groups_works_when_token_has_usergroup_write_scope",
         "works", ScopeUsergroupWrite, "POST", "/api/v1/userGroups", ""),
    Case("test_user_groups_scopes",
         "test_put_user_group_works_when_token_has_usergroup_write_scope",
         "works", ScopeUsergroupWrite, "PUT", "/api/v1/userGroups/{group_id}", "group_id"),
    Case("test_user_groups_scopes",
         "test_post_user_groups_returns_denied_when_token_does_not_have_usergroup_write_scope",
         "denied", ScopeUsergroupWrite, "POST", "/api/v1/userGroups", "")
  >>

UsersCases ==
  <<
    Case("test_users_scopes",
         "test_get_users_works_when_token_has_user_read_scope",
         "works", ScopeUserRead, "GET", "/api/v1/users", ""),
    Case("test_users_scopes",
         "test_get_user_by_id_works_when_token_has_user_read_scope",
         "works", ScopeUserRead, "GET", "/api/v1/users/{user_id}", "user_id"),
    Case("test_users_scopes",
         "test_get_users_returns_denied_when_token_does_not_have_user_read_scope",
         "denied", ScopeUserRead, "GET", "/api/v1/users", ""),
    Case("test_users_scopes",
         "test_post_users_works_when_token_has_user_invite_scope",
         "works", ScopeUserInvite, "POST", "/api/v1/users", ""),
    Case("test_users_scopes",
         "test_post_users_returns_denied_when_token_does_not_have_user_invite_scope",
         "denied", ScopeUserInvite, "POST", "/api/v1/users", ""),
    Case("test_users_scopes",
         "test_put_user_works_when_token_has_user_write_scope",
         "works", ScopeUserWrite, "PUT", "/api/v1/users/{user_id}", "user_id"),
    Case("test_users_scopes",
         "test_put_user_returns_denied_when_token_does_not_have_user_write_scope",
         "denied", ScopeUserWrite, "PUT", "/api/v1/users/{user_id}", "user_id"),
    Case("test_users_scopes",
         "test_delete_user_works_when_token_has_user_delete_scope",
         "works", ScopeUserDelete, "DELETE", "/api/v1/users/{user_id}", "user_id"),
    Case("test_users_scopes",
         "test_delete_user_returns_denied_when_token_does_not_have_user_delete_scope",
         "denied", ScopeUserDelete, "DELETE", "/api/v1/users/{user_id}", "user_id")
  >>

Tests == OrgCases \o TeamsCases \o UserGroupsCases \o UsersCases
\* ------------------------------------------------------------------------
\* tests/utils.py: make_request

\* What the network does with one request: an HTTP response with a status
\* code and a body, or a failure of the transport. The body of an Answer is
\* the JSON document of data; the body of a TextAnswer is text, JSON or not.
Answer(status, data) ==
  [kind |-> "response", status |-> status, data |-> data]

TextAnswer(status, text) ==
  [kind |-> "body", status |-> status, text |-> text]

Refused ==
  [kind |-> "ConnectionError", status |-> 0, data |-> NoneV,
   cause |-> "Max retries exceeded"]

TimedOut ==
  [kind |-> "Timeout", status |-> 0, data |-> NoneV,
   cause |-> "Read timed out"]

\* try: data = response.json()
ResponseJson(net) ==
  IF net.kind = "response" THEN Returned(net.data) ELSE json_loads(net.text)

\* except: data = response.text
ResponseData(net, parsed) == IF parsed.ok THEN parsed.val ELSE StrV(net.text)

\* What a call of make_request comes to: the dictionary returned or the
\* Exception raised (err: how its message begins; msg: the message), and
\* wire: the HTTP requests the call sent.
Completed(val, wire) ==
  [ok |-> TRUE, err |-> "", val |-> val, msg |-> <<>>, wire |-> wire]

Failed(err, msg, wire) ==
  [ok |-> FALSE, err |-> err, val |-> <<>>, msg |-> msg, wire |-> wire]

\* A make_request with one except clause for every failure.
make_request_generic(request, net) ==
  IF net.kind \in {"response", "body"}
  THEN Completed([status |-> net.status,
                  data |-> ResponseData(net, ResponseJson(net))], <<request>>)
  ELSE Failed("Request failed", <<"Request failed: ", net.cause>>, <<request>>)

\* A make_request that checks the status, as response.raise_for_status()
\* would, before it returns.
make_request_checked(request, net) ==
  IF net.kind \in {"response", "body"} /\ net.status < 400
  THEN Completed([status |-> net.status,
                  data |-> ResponseData(net, ResponseJson(net))], <<request>>)
  ELSE IF net.kind = "ConnectionError"
  THEN Failed("Connection refused",
              <<"Connection refused to ", request.url,
                ". Is the backend running?">>, <<request>>)
  ELSE Failed("Request failed",
              <<"Request failed: ",
                IF net.kind \in {"response", "body"} THEN "HTTPError"
                ELSE net.cause>>, <<request>>)

\* make_request: one requests.request call, whose response is returned as
\* {'status', 'data'} and whose failure is raised again as an Exception.
make_request(request, net) ==
  IF net.kind \in {"response", "body"}
  THEN Completed([status |-> net.status,
                  data |-> ResponseData(net, ResponseJson(net))], <<request>>)
  ELSE IF net.kind = "ConnectionError"
  THEN Failed("Connection refused",
              <<"Connection refused to ", request.url,
                ". Is the backend running?">>, <<request>>)
  ELSE Failed("Request failed", <<"Request failed: ", net.cause>>, <<request>>)

\* ------------------------------------------------------------------------
\* The resource fixtures team_id, group_id and user_id

Families == {"team_id", "group_id", "user_id"}

KeyId == <<"i", "d">>

KeyUnderId == <<"_", "i", "d">>

KeyData == <<"d", "a", "t", "a">>

\* The key of the list in a response envelope, after 'data'.
ListKey(f) ==
  CASE f = "team_id"  -> <<"t", "e", "a", "m", "s">>
    [] f = "group_id" -> <<"u", "s", "e", "r", "G", "r", "o", "u", "p", "s">>
    [] OTHER          -> <<"u", "s", "e", "r", "s">>

\* The scope to read the family's resources.
ReadScope(f) ==
  CASE f = "team_id"  -> ScopeTeamRead
    [] f = "group_id" -> ScopeUsergroupRead
    [] OTHER          -> ScopeUserRead

\* The scope the fixture wants in token_scopes before it creates a resource.
CreateScope(f) ==
  CASE f = "team_id"  -> ScopeTeamWrite
    [] f = "group_id" -> ScopeUsergroupWrite
    [] OTHER          -> ScopeUserInvite

ListV(items) == [t |-> "list", v |-> items]

DictV(pairs) == [t |-> "dict", v |-> pairs]

Pair(k, val) == [k |-> k, val |-> val]

\* str(x) of a value that is truthy or '': the text of a string or number;
\* of None, a bool or a container, its repr.
str_of(x) ==
  CASE x.t = "str"  -> x
    [] x.t = "num"  -> StrV(x.v)
    [] x.t = "null" -> StrV(<<"N", "o", "n", "e">>)
    [] x.t = "bool" -> IF x.v THEN StrV(<<"T", "r", "u", "e">>)
                       ELSE StrV(<<"F", "a", "l", "s", "e">>)
    [] OTHER        -> StrV(<<"<repr>">>)

\* obj.get('id') or ''
IdOnly(obj) == PyOr(DictGet(obj, KeyId, NoneV), StrV(<<>>))

\* obj.get('id') or obj.get('_id') or ''
IdOf(obj) ==
  PyOr(PyOr(DictGet(obj, KeyId, NoneV), DictGet(obj, KeyUnderId, NoneV)),
       StrV(<<>>))

\* How a stretch of a fixture's try block ends: it returns a value, raises
\* into the except clause, or goes on to the next statement.
Return(x) == [kind |-> "return", value |-> x, err |-> ""]

Raise(e) == [kind |-> "raise", value |-> NoneV, err |-> e]

Continue == [kind |-> "continue", value |-> NoneV, err |-> ""]

\* data.get('data') or data.get(<list key>) or []
Enveloped(f, data) ==
  PyOr(PyOr(DictGet(data, KeyData, NoneV), DictGet(data, ListKey(f), NoneV)),
       ListV(<<>>))

\* The list a 200 response holds. team_id leaves teams = None when data is
\* neither a list nor a dict; group_id and user_id call data.get on
\* whatever is no list.
Listed(f, data) ==
  IF data.t = "list" THEN Returned(data)
  ELSE IF data.t = "dict" THEN Returned(Enveloped(f, data))
  ELSE IF f = "team_id" THEN Returned(NoneV)
  ELSE Raised("AttributeError")

\* if isinstance(items, list) and len(items) > 0:
\*     return str(items[0].get('id') or items[0].get('_id') or '')
FirstId(listed) ==
  IF ~listed.ok THEN Raise(listed.err)
  ELSE IF listed.val.t = "list" /\ Len(listed.val.v) > 0
  THEN IF listed.val.v[1].t = "dict"
       THEN Return(str_of(IdOf(listed.val.v[1])))
       ELSE Raise("AttributeError")
  ELSE Continue

\* if response['status'] == 200: ...
AfterList(f, response) ==
  IF response.status = 200 THEN FirstId(Listed(f, response.data))
  ELSE Continue

\* The created object: team_id unwraps a 'data' envelope, group_id and
\* user_id take the response data as it is.
Created(f, data) ==
  IF f = "team_id" /\ data.t = "dict" /\ DictHas(data, KeyData)
  THEN DictGet(data, KeyData, NoneV)
  ELSE data

\* new_id = obj.get('id') or obj.get('_id') or ''
\* if new_id: return str(new_id)
CreatedId(obj) ==
  IF obj.t # "dict" THEN Raise("AttributeError")
  ELSE IF Truthy(IdOf(obj)) THEN Return(str_of(IdOf(obj)))
  ELSE Continue

\* if create_response['status'] in [200, 201]: ...
AfterCreate(f, response) ==
  IF response.status \in {200, 201}
  THEN CreatedId(Created(f, response.data))
  ELSE Continue

\* A resolver that goes on whatever the organization id is.
NoOrganizationCheck(org_id) == FALSE

\* The requests of a fixture: the list request, for team_id the list request
\* with the organization in the query, and the creation request, whose
\* body has the organization as orgId.
ListPath(f) ==
  CASE f = "team_id"  -> "/api/v1/teams?page=1&limit=10"
    [] f = "group_id" -> "/api/v1/userGroups"
    [] OTHER          -> "/api/v1/users"

CreatePath(f) ==
  CASE f = "team_id"  -> "/api/v1/teams"
    [] f = "group_id" -> "/api/v1/userGroups"
    [] OTHER          -> "/api/v1/users"

FixtureRequest(f, step, org_id) ==
  CASE step = "list" ->
         [method |-> "GET", url |-> [path |-> ListPath(f), orgId |-> NoneV],
          body |-> NoneV]
    [] step = "list_org" ->
         [method |-> "GET", url |-> [path |-> ListPath(f), orgId |-> org_id],
          body |-> NoneV]
    [] OTHER ->
         [method |-> "POST", url |-> [path |-> CreatePath(f), orgId |-> NoneV],
          body |-> org_id]

\* if not org_id: return None
NoOrganization(org_id) == ~Truthy(org_id)

\* if team_id is None: pytest.skip(...)
IsNone(handle) == handle.t = "null"

\* if not team_id: pytest.skip(...)
NoHandleValue(handle) == ~Truthy(handle)

\* print(f'Error in {f} fixture: {e}')
FixtureDiagnostic(f) ==
  CASE f = "team_id"  -> "Error in team_id fixture"
    [] f = "group_id" -> "Error in group_id fixture"
    [] OTHER          -> "Error in user_id fixture"

\* ------------------------------------------------------------------------
\* The scope checks

\* assert response['status'] in [400, 401, 403, 404]
DenialSet == {400, 401, 403, 404}

\* Every 4xx status taken as a denial.
ClientError(status) == 400 <= status /\ status < 500

Denied(status) == status \in DenialSet

\* A range check that takes 500 in: 200 <= status <= 500.
UpTo500(status) == 200 <= status /\ status <= 500

\* assert 200 <= response['status'] < 500
OpenRange(status) == 200 <= status /\ status < 500

Holds(assertion, status) ==
  IF assertion = "open-range" THEN OpenRange(status) ELSE Denied(status)

\* The condition of the branch that ends with return: `if not has_scope`
\* in a "works" test case, `if has_scope` in a "denied" one.
EarlyBranch(kind, has) == IF kind = "works" THEN ~has ELSE has

\* A test body whose early branch does not return: it goes on to the
\* request and the assertion at its end.
BodyWithoutReturn(kind, has) ==
  IF EarlyBranch(kind, has)
  THEN IF kind = "works" THEN <<"denial-set", "open-range">>
       ELSE <<"open-range", "denial-set">>
  ELSE <<IF kind = "works" THEN "open-range" ELSE "denial-set">>

\* The assertions a test body comes to, a request before each, as long as
\* they hold: the one of the early branch, after which the body returns,
\* or the one at the end of the body.
BodyPlan(kind, has) ==
  IF EarlyBranch(kind, has)
  THEN <<IF kind = "works" THEN "denial-set" ELSE "open-range">>
  ELSE <<IF kind = "works" THEN "open-range" ELSE "denial-set">>

\* ------------------------------------------------------------------------
\* The backend: what it may answer

\* The status codes of HTTP responses.
MinStatus == 100

MaxStatus == 599

Statuses == MinStatus..MaxStatus

TestAnswers == {Answer(s, NoneV) : s \in Statuses} \cup {Refused, TimedOut}

KeyName == <<"n", "a", "m", "e">>

TextBody == StrV(<<"N", "o", "t", " ", "J", "S", "O", "N">>)

\* Resources as the backend lists them: with an id, with an _id, with an
\* empty id and an _id, without either, with a number as id; and a list
\* entry that is no object.
ResourceById == DictV(<<Pair(KeyId, StrV(<<"r", "1">>))>>)

ResourceByUnderId == DictV(<<Pair(KeyUnderId, StrV(<<"r", "2">>))>>)

ResourceEmptyId ==
  DictV(<<Pair(KeyId, StrV(<<>>)), Pair(KeyUnderId, StrV(<<"r", "2">>))>>)

ResourceNoId == DictV(<<Pair(KeyName, StrV(<<"n">>))>>)

ResourceNumId == DictV(<<Pair(KeyId, NumV(<<"7">>))>>)

NotAResource == StrV(<<"x">>)

\* Bodies of a 200 answer to a list request: bare lists, envelopes and
\* bodies that are neither.
ListBodies(f) ==
  {ListV(<<>>), ListV(<<ResourceById>>),
   ListV(<<ResourceByUnderId, ResourceById>>), ListV(<<ResourceEmptyId>>),
   ListV(<<ResourceNoId>>), ListV(<<ResourceNumId>>), ListV(<<NotAResource>>),
   DictV(<<Pair(KeyData, ListV(<<ResourceById>>))>>),
   DictV(<<Pair(ListKey(f), ListV(<<ResourceByUnderId>>))>>),
   DictV(<<Pair(KeyData, ListV(<<>>)),
           Pair(ListKey(f), ListV(<<ResourceById>>))>>),
   DictV(<<Pair(KeyName, StrV(<<"n">>))>>),
   DictV(<<Pair(KeyData, TextBody)>>),
   TextBody, NoneV}

ListAnswers(f) ==
  {Answer(200, b) : b \in ListBodies(f)}
  \cup {Answer(s, TextBody) : s \in {201, 401, 403, 404, 500}}
  \cup {Refused}

CreatedById == DictV(<<Pair(KeyId, StrV(<<"n", "1">>))>>)

CreatedByUnderId == DictV(<<Pair(KeyUnderId, StrV(<<"n", "2">>))>>)

\* Bodies of an answer to a creation request: the object, the object in a
\* 'data' envelope, and bodies without an object.
CreatedBodies ==
  {CreatedById, CreatedByUnderId, DictV(<<Pair(KeyData, CreatedById)>>),
   DictV(<<Pair(KeyData, NoneV)>>), ResourceNoId, TextBody}

CreateAnswers ==
  {Answer(s, b) : s \in {200, 201}, b \in CreatedBodies}
  \cup {Answer(202, CreatedById), Answer(204, StrV(<<>>))}
  \cup {Answer(s, TextBody) : s \in {400, 403, 409, 500}}
  \cup {Refused}

\* ------------------------------------------------------------------------
\* The tokens a session is run with

AllScopes ==
  <<ScopeOrgRead, ScopeOrgWrite, ScopeOrgAdmin, ScopeTeamRead, ScopeTeamWrite,
    ScopeUsergroupRead, ScopeUsergroupWrite, ScopeUserRead, ScopeUserInvite,
    ScopeUserWrite, ScopeUserDelete>>

ReadScopes ==
  <<ScopeOrgRead, ScopeTeamRead, ScopeUsergroupRead, ScopeUserRead>>

WriteScopes ==
  <<ScopeOrgWrite, ScopeTeamWrite, ScopeUsergroupWrite, ScopeUserInvite,
    ScopeUserWrite>>

\* No token; text that is no token; every scope with an organization;
\* the read scopes only; the write scopes with the organization under the
\* alternate key; every scope without an organization, and with an empty
\* one; an organization without any scope.
SessionTokens ==
  {Make(<<>>, "single", Absent, Absent, Absent, "urlsafe", "empty"),
   Make(AllScopes, "single", WordsClaim(AllScopes, "single"),
        OrgValues[2], Absent, "urlsafe", "nodot"),
   Make(AllScopes, "single", WordsClaim(AllScopes, "single"),
        OrgValues[2], Absent, "urlsafe", "none"),
   Make(ReadScopes, "double", WordsClaim(ReadScopes, "double"),
        OrgValues[2], Absent, "standard", "none"),
   Make(WriteScopes, "single", WordsClaim(WriteScopes, "single"),
        Absent, OrgValues[3], "urlsafe", "none"),
   Make(AllScopes, "single", WordsClaim(AllScopes, "single"),
        Absent, Absent, "urlsafe", "none"),
   Make(AllScopes, "single", WordsClaim(AllScopes, "single"),
        OrgValues[4], Absent, "urlsafe", "none"),
   Make(<<>>, "single", Absent, OrgValues[2], Absent, "urlsafe", "none")}


\* ------------------------------------------------------------------------
\* State

VARIABLES
  main,          \* scripts/run_tests_with_auth.py: where main() is, and its world
  made,          \* the issuer's choices behind ACCESS_TOKEN
  ACCESS_TOKEN,  \* tests/utils.py: the token from the environment
  call,          \* the last direct call of a decoder function and its outcome
  cur,           \* index in Tests of the test case being run
  pc,            \* where the session is in the current test case
  token_scopes,  \* the module-scoped token_scopes fixture
  handles,       \* the module-scoped team_id, group_id, user_id fixtures
  reqlog,        \* the requests each resolver sent, in order
  frame,         \* the resource fixture of the module: the responses it got
  run,           \* the current test case: requests, assertions, outcome
  stdout         \* the diagnostics printed so far

vars ==
  <<main, made, ACCESS_TOKEN, call, cur, pc, token_scopes, handles, reqlog, frame,
    run, stdout>>

session == <<cur, pc, token_scopes, handles, reqlog, frame, run, stdout>>

\* ------------------------------------------------------------------------
\* The decoder functions called directly on an issued token

NoCall == [fn |-> "", scope |-> <<>>, out |-> Outcome(NoneV, "", FALSE)]

\* The scope strings has_scope is asked about.
ProbeScopes == ScopeWords \cup {<<"a", " ", "b">>, <<>>}

NoFixture == [state |-> "unset", value |-> <<>>]

NoHandle == [state |-> "unset", org_id |-> NoneV, value |-> NoneV]

\* A resource fixture before its first request: listed and created are the
\* responses to its list requests and to its creation request, in order,
\* which are gone once the fixture has returned and the test function is
\* called; caught is the exception its except clause caught ("": none).
NoFrame == [listed |-> <<>>, created |-> <<>>, caught |-> ""]

\* A test case before it starts: no outcome, no request sent, no assertion
\* evaluated, no response (status 0), no exception.
NoRun ==
  [outcome |-> "", has_scope |-> FALSE, plan |-> <<>>, step |-> 0,
   sent |-> <<>>, asserted |-> <<>>, status |-> 0, raised |-> ""]

\* run_tests_with_auth.py before main() is called: no server process
\* (process), main's server_process unbound (None), no token, nothing
\* written to .env (saved holds the tokens written, in order), no pytest
\* run (tests holds the return codes of the runs), the process not exited
\* (status -1), nothing printed.  env_file is the .env file: whether it
\* exists, whether it sets CLIENT_ID, and the ACCESS_TOKEN it holds.
NoMain ==
  [pc |-> "idle", i |-> 0, process |-> "none", server_process |-> FALSE,
   token |-> NoneV, saved |-> <<>>, tests |-> <<>>, status |-> -1,
   printed |-> {},
   env_file |-> [exists |-> FALSE, CLIENT_ID |-> FALSE,
                 ACCESS_TOKEN |-> NoneV]]

SessionIdle ==
  /\ cur = 0
  /\ pc = "idle"
  /\ token_scopes = NoFixture
  /\ handles = [f \in Families |-> NoHandle]
  /\ reqlog = [f \in Families |-> <<>>]
  /\ frame = NoFrame
  /\ run = NoRun
  /\ stdout = {}

DecInit ==
  /\ main = NoMain
  /\ made \in DecoderTokens
  /\ ACCESS_TOKEN = IssueToken(made)
  /\ call = NoCall
  /\ SessionIdle

CallGetScopes ==
  /\ call' = [fn |-> "get_scopes_from_token", scope |-> <<>>,
              out |-> get_scopes_from_token_run(ACCESS_TOKEN)]
  /\ UNCHANGED <<main, made, ACCESS_TOKEN, session>>

CallGetOrgId ==
  /\ call' = [fn |-> "get_org_id_from_token", scope |-> <<>>,
              out |-> get_org_id_from_token_run(ACCESS_TOKEN)]
  /\ UNCHANGED <<main, made, ACCESS_TOKEN, session>>

CallHasScope ==
  \E required_scope \in ProbeScopes :
    /\ call' = [fn |-> "has_scope", scope |-> required_scope,
                out |-> Outcome(has_scope(ACCESS_TOKEN, required_scope),
                                "", FALSE)]
    /\ UNCHANGED <<main, made, ACCESS_TOKEN, session>>

DecNext == CallGetScopes \/ CallGetOrgId \/ CallHasScope

SpecDecode == DecInit /\ [][DecNext]_vars


\* ------------------------------------------------------------------------
\* make_request called directly

\* Response bodies as text, each with the JSON value it is the document
\* of, if it is one.
ProbeBodies ==
  {[text |-> <<"{", "\"", "i", "d", "\"", ":", " ", "\"", "r", "1", "\"", "}">>,
     doc |-> Present(ResourceById)],
    [text |-> <<"[", "]">>,
     doc |-> Present(ListV(<<>>))],
    [text |-> <<"n", "u", "l", "l">>,
     doc |-> Present(NoneV)],
    [text |-> <<"\"", "n", "\"">>,
     doc |-> Present(StrV(<<"n">>))],
    [text |-> <<"N", "o", "t", " ", "J", "S", "O", "N">>,
     doc |-> Absent],
    [text |-> <<"{", "\"", "i", "d", "\"", ":">>,
     doc |-> Absent],
    [text |-> <<>>,
     doc |-> Absent]}

\* The requests make_request is tried with.
ProbeRequests ==
  {[method |-> "GET", url |-> [path |-> "/api/v1/org", id |-> NoneV]],
   FixtureRequest("team_id", "list_org", StrV(<<"X">>)),
   FixtureRequest("user_id", "create", StrV(<<"X">>))}

\* A transport failure that is no connection failure and no timeout.
Redirected ==
  [kind |-> "TooManyRedirects", status |-> 0, data |-> NoneV,
   cause |-> "Exceeded 30 redirects"]

\* A call of make_request to come: the request, what the network does
\* with it, and, for a body given as text, the body.
ToCall(request, net, body) ==
  [fn |-> "", request |-> request, net |-> net, body |-> body,
   out |-> Failed("", <<>>, <<>>)]

\* The calls make_request is tried with: for every request, every status
\* with a JSON body, some statuses with a body given as text, and the
\* failures of the transport.
ProbeCalls ==
  {ToCall(request, Answer(status, data), Absent) :
     request \in ProbeRequests, status \in Statuses, data \in CreatedBodies}
  \cup {ToCall(request, TextAnswer(status, body.text), Present(body)) :
          request \in ProbeRequests, status \in {200, 204, 302, 404, 500},
          body \in ProbeBodies}
  \cup {ToCall(request, net, Absent) :
          request \in ProbeRequests, net \in {Refused, TimedOut, Redirected}}

ReqInit ==
  /\ main = NoMain
  /\ made = Make(<<>>, "single", Absent, Absent, Absent, "urlsafe", "empty")
  /\ ACCESS_TOKEN = IssueToken(made)
  /\ call \in ProbeCalls
  /\ SessionIdle

\* make_request is called.
CallMakeRequest ==
  /\ call.fn = ""
  /\ call' = [call EXCEPT !.fn = "make_request",
                          !.out = make_request(call.request, call.net)]
  /\ UNCHANGED <<main, made, ACCESS_TOKEN, session>>

SpecRequest == ReqInit /\ [][CallMakeRequest]_vars

\* ------------------------------------------------------------------------
\* The pytest session: the test cases one after the other, each with its
\* fixtures first

Init ==
  /\ main = NoMain
  /\ made \in SessionTokens
  /\ ACCESS_TOKEN = IssueToken(made)
  /\ call = NoCall
  /\ cur = 1
  /\ pc = "setup"
  /\ token_scopes = NoFixture
  /\ handles = [f \in Families |-> NoHandle]
  /\ reqlog = [f \in Families |-> <<>>]
  /\ frame = NoFrame
  /\ run = NoRun
  /\ stdout = {}

\* pytest.skip(...)
Skip ==
  /\ run' = [run EXCEPT !.outcome = "skipped"]
  /\ pc' = "done"

\* scopes = get_scopes_from_token(ACCESS_TOKEN); return scopes
TokenScopesFixture(r) ==
  /\ token_scopes' = [state |-> "set", value |-> r.ret]
  /\ stdout' = IF r.printed THEN stdout \cup {"Error decoding token"}
               ELSE stdout
  /\ UNCHANGED <<pc, run>>

\* The token_scopes fixture, run for the first test case of a module.
SetupTokenScopes ==
  /\ pc = "setup"
  /\ token_scopes.state = "unset"
  /\ IF ACCESS_TOKEN = <<>>
     THEN /\ token_scopes' = [state |-> "skipped", value |-> <<>>]
          /\ Skip
          /\ UNCHANGED stdout
     ELSE TokenScopesFixture(get_scopes_from_token_run(ACCESS_TOKEN))
  /\ UNCHANGED <<main, made, ACCESS_TOKEN, call, cur, handles, reqlog, frame>>

\* A later test case of a module whose token_scopes fixture skipped.
SkipAgain ==
  /\ pc = "setup"
  /\ token_scopes.state = "skipped"
  /\ Skip
  /\ UNCHANGED <<main, made, ACCESS_TOKEN, call, cur, token_scopes, handles, reqlog,
                 frame, stdout>>

\* A resource fixture returns value.
Resolved(f, value) ==
  /\ handles' = [handles EXCEPT ![f].state = "set", ![f].value = value]
  /\ pc' = "setup"

\* org_id = get_org_id_from_token(ACCESS_TOKEN); if not org_id: return None
BeginWith(f, org_id) ==
  IF NoOrganization(org_id)
  THEN /\ handles' = [handles EXCEPT ![f] = [state |-> "set",
                                             org_id |-> org_id,
                                             value |-> NoneV]]
       /\ pc' = "setup"
  ELSE /\ handles' = [handles EXCEPT ![f] = [state |-> "running",
                                             org_id |-> org_id,
                                             value |-> NoneV]]
       /\ pc' = "list"

\* A resource fixture, run for the first test case of its module that takes
\* it, up to its first request.
ResolveBegin ==
  /\ pc = "setup"
  /\ token_scopes.state = "set"
  /\ Tests[cur].fixture # ""
  /\ handles[Tests[cur].fixture].state = "unset"
  /\ IF ACCESS_TOKEN = <<>>
     THEN Resolved(Tests[cur].fixture, NoneV)
     ELSE BeginWith(Tests[cur].fixture, get_org_id_from_token(ACCESS_TOKEN))
  /\ UNCHANGED <<main, made, ACCESS_TOKEN, call, cur, token_scopes, reqlog, frame,
                 run, stdout>>

\* except Exception as e: print(f'Error in ... fixture: {e}') ... return None
Excepted(f) ==
  /\ Resolved(f, NoneV)
  /\ stdout' = stdout \cup {FixtureDiagnostic(f)}

\* A fixture whose try block ends with the listing: a failure there is
\* passed over, and the fixture goes on as after an empty listing.
ProceedAfterFailure(f, step) ==
  CASE step.kind = "return" -> Resolved(f, step.value) /\ UNCHANGED stdout
    [] OTHER ->
         /\ IF Contains(token_scopes.value, CreateScope(f))
            THEN pc' = "create" /\ UNCHANGED handles
            ELSE Resolved(f, NoneV)
         /\ UNCHANGED stdout

\* After the list response: return the first id, or go on to create a
\* resource if token_scopes has the scope for it, or return None.
Proceed(f, step) ==
  CASE step.kind = "return" -> Resolved(f, step.value) /\ UNCHANGED stdout
    [] step.kind = "raise"  -> Excepted(f)
    [] OTHER ->
         /\ IF Contains(token_scopes.value, CreateScope(f))
            THEN pc' = "create" /\ UNCHANGED handles
            ELSE Resolved(f, NoneV)
         /\ UNCHANGED stdout

\* After a make_request call of a fixture: the requests it sent are in
\* reqlog, its response, if any, in the fixture's local, and what the
\* except clause caught, in the call or in the step after it, in caught.
Logged(f, r, local, step) ==
  /\ reqlog' = [reqlog EXCEPT ![f] = @ \o r.wire]
  /\ frame' = [frame EXCEPT ![local] = IF r.ok THEN Append(@, r.val) ELSE @,
                            !.caught = IF r.ok THEN step.err ELSE r.err]

\* A team_id that asks again, with the organization in the query, whatever
\* the status of the first list response.
ListingTwice(f, r) ==
  /\ IF ~r.ok THEN Excepted(f)
     ELSE IF f = "team_id" /\ Truthy(handles[f].org_id)
     THEN pc' = "list_org" /\ UNCHANGED <<handles, stdout>>
     ELSE Proceed(f, AfterList(f, r.val))
  /\ Logged(f, r, "listed",
            IF r.ok THEN AfterList(f, r.val) ELSE Raise(r.err))

\* team_id asks again, with the organization in the query, when the first
\* list response is no 200.
Listing(f, r) ==
  /\ IF ~r.ok THEN Excepted(f)
     ELSE IF f = "team_id" /\ r.val.status # 200 /\ Truthy(handles[f].org_id)
     THEN pc' = "list_org" /\ UNCHANGED <<handles, stdout>>
     ELSE Proceed(f, AfterList(f, r.val))
  /\ Logged(f, r, "listed",
            IF r.ok THEN AfterList(f, r.val) ELSE Raise(r.err))

\* The list request of a resource fixture and what follows its response.
ResolveList ==
  /\ pc = "list"
  /\ \E net \in ListAnswers(Tests[cur].fixture) :
       Listing(Tests[cur].fixture,
               make_request(FixtureRequest(Tests[cur].fixture, "list",
                                           handles[Tests[cur].fixture].org_id),
                            net))
  /\ UNCHANGED <<main, made, ACCESS_TOKEN, call, cur, token_scopes, run>>

ListingAgain(f, r) ==
  /\ IF ~r.ok THEN Excepted(f) ELSE Proceed(f, AfterList(f, r.val))
  /\ Logged(f, r, "listed",
            IF r.ok THEN AfterList(f, r.val) ELSE Raise(r.err))

\* The second list request of team_id.
ResolveListOrg ==
  /\ pc = "list_org"
  /\ \E net \in ListAnswers(Tests[cur].fixture) :
       ListingAgain(Tests[cur].fixture,
                    make_request(FixtureRequest(Tests[cur].fixture, "list_org",
                                                handles[Tests[cur].fixture].org_id),
                                 net))
  /\ UNCHANGED <<main, made, ACCESS_TOKEN, call, cur, token_scopes, run>>

\* After the creation response: return the new id, or None.
Conclude(f, step) ==
  CASE step.kind = "return" -> Resolved(f, step.value) /\ UNCHANGED stdout
    [] step.kind = "raise"  -> Excepted(f)
    [] OTHER                -> Resolved(f, NoneV) /\ UNCHANGED stdout

Creating(f, r) ==
  /\ IF ~r.ok THEN Excepted(f) ELSE Conclude(f, AfterCreate(f, r.val))
  /\ Logged(f, r, "created",
            IF r.ok THEN AfterCreate(f, r.val) ELSE Raise(r.err))

\* The creation request of a resource fixture and what follows its response.
ResolveCreate ==
  /\ pc = "create"
  /\ \E net \in CreateAnswers :
       Creating(Tests[cur].fixture,
                make_request(FixtureRequest(Tests[cur].fixture, "create",
                                            handles[Tests[cur].fixture].org_id),
                             net))
  /\ UNCHANGED <<main, made, ACCESS_TOKEN, call, cur, token_scopes, run>>

\* has_scope = '<scope>' in token_scopes
Body(test, has) ==
  /\ run' = [run EXCEPT !.has_scope = has, !.plan = BodyPlan(test.kind, has),
                        !.step = 1]
  /\ pc' = "request"

\* The test function is called with its fixtures: it skips without a
\* resource id, else looks the scope up.
TestBegin ==
  /\ pc = "setup"
  /\ token_scopes.state = "set"
  /\ Tests[cur].fixture # "" => handles[Tests[cur].fixture].state = "set"
  /\ IF /\ Tests[cur].fixture # ""
        /\ NoHandleValue(handles[Tests[cur].fixture].value)
     THEN Skip
     ELSE Body(Tests[cur], Contains(token_scopes.value, Tests[cur].scope))
  /\ frame' = [frame EXCEPT !.listed = <<>>, !.created = <<>>]
  /\ UNCHANGED <<main, made, ACCESS_TOKEN, call, cur, token_scopes, handles, reqlog,
                 stdout>>

\* The request of a test case: method, path and the resource id in the path.
Sent(test) ==
  [method |-> test.method,
   url |-> [path |-> test.path,
            id |-> IF test.fixture = "" THEN NoneV
                   ELSE handles[test.fixture].value]]

\* response = make_request(...): an exception ends the test case.
Requested(r) ==
  IF ~r.ok
  THEN /\ run' = [run EXCEPT !.sent = @ \o r.wire,
                             !.outcome = "failed", !.raised = r.err]
       /\ pc' = "done"
  ELSE /\ run' = [run EXCEPT !.sent = @ \o r.wire,
                             !.status = r.val.status]
       /\ pc' = "assert"

TestRequest ==
  /\ pc = "request"
  /\ \E net \in TestAnswers : Requested(make_request(Sent(Tests[cur]), net))
  /\ UNCHANGED <<main, made, ACCESS_TOKEN, call, cur, token_scopes, handles, reqlog,
                 frame, stdout>>

\* assert ...: a failed assertion ends the test case; after one that holds
\* the body goes on with what BodyPlan has next, and passes at its end.
Asserted(assertion, ok, last) ==
  /\ run' = [run EXCEPT !.asserted = Append(@, assertion),
                        !.outcome = IF ~ok THEN "failed"
                                    ELSE IF last THEN "passed" ELSE @,
                        !.step = IF ok /\ ~last THEN @ + 1 ELSE @]
  /\ pc' = IF ok /\ ~last THEN "request" ELSE "done"

TestAssert ==
  /\ pc = "assert"
  /\ Asserted(run.plan[run.step], Holds(run.plan[run.step], run.status),
              run.step = Len(run.plan))
  /\ UNCHANGED <<main, made, ACCESS_TOKEN, call, cur, token_scopes, handles, reqlog,
                 frame, stdout>>

\* The next test case with resource fixtures of function scope: they end
\* with each test case.
NextTestFunctionScope ==
  /\ pc = "done"
  /\ cur' = cur + 1
  /\ run' = NoRun
  /\ stdout' = {}
  /\ pc' = IF cur = Len(Tests) THEN "end" ELSE "setup"
  /\ handles' = [f \in Families |-> NoHandle]
  /\ frame' = NoFrame
  /\ IF cur = Len(Tests) \/ Tests[cur + 1].module # Tests[cur].module
     THEN /\ token_scopes' = NoFixture
          /\ reqlog' = [f \in Families |-> <<>>]
     ELSE UNCHANGED <<token_scopes, reqlog>>
  /\ UNCHANGED <<main, made, ACCESS_TOKEN, call>>

\* The next test case; the module-scoped fixtures end with their module,
\* and the captured output with the test case.
NextTest ==
  /\ pc = "done"
  /\ cur' = cur + 1
  /\ run' = NoRun
  /\ stdout' = {}
  /\ pc' = IF cur = Len(Tests) THEN "end" ELSE "setup"
  /\ IF cur = Len(Tests) \/ Tests[cur + 1].module # Tests[cur].module
     THEN /\ token_scopes' = NoFixture
          /\ handles' = [f \in Families |-> NoHandle]
          /\ reqlog' = [f \in Families |-> <<>>]
          /\ frame' = NoFrame
     ELSE UNCHANGED <<token_scopes, handles, reqlog, frame>>
  /\ UNCHANGED <<main, made, ACCESS_TOKEN, call>>

Next ==
  \/ SetupTokenScopes
  \/ SkipAgain
  \/ ResolveBegin
  \/ ResolveList
  \/ ResolveListOrg
  \/ ResolveCreate
  \/ TestBegin
  \/ TestRequest
  \/ TestAssert
  \/ NextTest

Spec == Init /\ [][Next]_vars

\* ------------------------------------------------------------------------
\* Properties of the decoder (under SpecDecode)

Same(a, b) == a.t = b.t /\ a.v = b.v

Entries(list) == {list[i] : i \in DOMAIN list}

\* The token is as the issuer meant it, with the scope strings made.words
\* laid out in its scope claim.
WellFormedWords ==
  /\ made.damage = "none"
  /\ made.scope.has
  /\ Same(made.scope.val, StrV(ScopeString(made.words, made.layout)))

GotScopes == call.fn = "get_scopes_from_token"

GotOrgId == call.fn = "get_org_id_from_token"

\* C6: for every malformed token (empty, a segment count other than three,
\* a payload that is not valid base64, a decoded payload that is not valid
\* JSON or not a JSON object) get_scopes_from_token returns the empty list
\* and get_org_id_from_token returns None.
C6_MalformedTokenDecodesToNothing ==
  made.damage # "none" =>
    /\ GotScopes => call.out.ret = <<>>
    /\ GotOrgId => Same(call.out.ret, NoneV)

\* C7 as claimed: N space-separated scope strings in the scope claim of a
\* well-formed token come back as exactly N distinct, trimmed, non-empty
\* entries, whatever whitespace separates or surrounds them.
C7_ScopesAreDistinctEntries ==
  GotScopes /\ WellFormedWords =>
    /\ Len(call.out.ret) = Len(made.words)
    /\ Cardinality(Entries(call.out.ret)) = Len(made.words)
    /\ \A i \in DOMAIN call.out.ret :
         call.out.ret[i] # <<>> /\ str_strip(call.out.ret[i]) = call.out.ret[i]

\* C7 amended: the N scope strings come back as they are and in their
\* order, each trimmed and non-empty, whatever whitespace separates or
\* surrounds them; the entries are distinct when the scope strings are.
C7_ScopesAreTheScopeStrings ==
  GotScopes /\ WellFormedWords =>
    /\ call.out.ret = made.words
    /\ \A i \in DOMAIN call.out.ret :
         call.out.ret[i] # <<>> /\ str_strip(call.out.ret[i]) = call.out.ret[i]
    /\ Cardinality(Entries(made.words)) = Len(made.words)
         => Cardinality(Entries(call.out.ret)) = Len(made.words)

\* Three scope strings, one of them twice, with extra whitespace between
\* and around them, decoded.
C7_Witness ==
  /\ GotScopes
  /\ WellFormedWords
  /\ made.layout = "padded"
  /\ made.words = <<<<"a">>, <<"b">>, <<"a">>>>
  /\ call.out.ret = made.words

\* The payload {"scope": "a b c", "org_id": "X"} in a three-segment token.
RoundTrip ==
  /\ WellFormedWords
  /\ made.layout = "single"
  /\ made.words = <<<<"a">>, <<"b">>, <<"c">>>>
  /\ made.org_id.has
  /\ Same(made.org_id.val, StrV(<<"X">>))
  /\ ~made.orgId.has

\* C8: decoding the round-trip token yields the scopes {a, b, c} and the
\* org id "X", and has_scope(token, s) is true exactly for s in {a, b, c}.
C8_RoundTrip ==
  RoundTrip =>
    /\ GotScopes =>
         /\ Entries(call.out.ret) = {<<"a">>, <<"b">>, <<"c">>}
         /\ Len(call.out.ret) = 3
    /\ GotOrgId => Same(call.out.ret, StrV(<<"X">>))
    /\ call.fn = "has_scope" =>
         (call.out.ret <=> call.scope \in {<<"a">>, <<"b">>, <<"c">>})

\* has_scope found "b" in the round-trip token without padding.
C8_Witness ==
  /\ RoundTrip
  /\ made.encoding = "urlsafe"
  /\ call.fn = "has_scope"
  /\ call.scope = <<"b">>
  /\ call.out.ret

\* C9: get_org_id_from_token returns the org_id claim when it is present,
\* otherwise the orgId claim, and None only when neither is present; the
\* result is a string or None.
C9_OrgIdPrefersOrgIdClaim ==
  GotOrgId /\ made.damage = "none" =>
    /\ Same(call.out.ret,
            IF made.org_id.has THEN made.org_id.val
            ELSE IF made.orgId.has THEN made.orgId.val
            ELSE NoneV)
    /\ call.out.ret.t \in {"str", "null"}


\* ------------------------------------------------------------------------
\* Properties of the scope checks and the resource fixtures (under Spec)

\* The current test case has ended.
Finished == pc = "done"

\* The current test case has ended after make_request returned a response.
Responded == Finished /\ run.sent # <<>> /\ run.raised = ""

\* The assertion hasScope chooses.
Chosen == IF run.has_scope THEN "open-range" ELSE "denial-set"

\* C1: when the token has the required scope, a test case of either kind
\* passes exactly when the response status is in [200, 500) and fails for
\* every other status.
C1_HasScopePassesInOpenRange ==
  Responded /\ run.has_scope =>
    run.outcome = IF 200 <= run.status /\ run.status < 500 THEN "passed"
                  ELSE "failed"

\* A "returns denied" test case passed on a 404 with the scope in the
\* token.
C1_Witness ==
  /\ Responded
  /\ run.has_scope
  /\ Tests[cur].kind = "denied"
  /\ run.status = 404
  /\ run.outcome = "passed"

\* C2: when the token lacks the required scope, a test case of either kind
\* passes only when the response status is one of 400, 401, 403, 404, and
\* fails for every other status, 200 and the 5xx included.
C2_LacksScopePassesOnDenialOnly ==
  Responded /\ ~run.has_scope =>
    run.outcome = IF run.status \in {400, 401, 403, 404} THEN "passed"
                  ELSE "failed"

\* A "works" test case failed on a 200 without the scope in the token.
C2_Witness ==
  /\ Responded
  /\ ~run.has_scope
  /\ Tests[cur].kind = "works"
  /\ run.status = 200
  /\ run.outcome = "failed"

\* C3: with the scope in the token, no status of the denial set
\* {400, 401, 403, 404} is accepted: a test case that got one does not pass.
C3_HasScopeRejectsDenialSet ==
  Responded /\ run.has_scope /\ run.status \in {400, 401, 403, 404} =>
    run.outcome # "passed"

\* C4 as claimed: a test case that is not skipped makes exactly one request
\* and evaluates exactly one assertion, the one hasScope chooses.
C4_OneRequestOneAssertion ==
  /\ Len(run.sent) <= 1
  /\ Len(run.asserted) <= 1
  /\ Finished /\ run.outcome # "skipped" =>
       Len(run.sent) = 1 /\ run.asserted = <<Chosen>>

\* C4 amended: a test case that is not skipped makes exactly one request
\* and evaluates at most one assertion: the one hasScope chooses when
\* make_request returns a response, none when make_request raises.
C4_OneRequestAtMostOneAssertion ==
  /\ Len(run.sent) <= 1
  /\ Len(run.asserted) <= 1
  /\ Finished /\ run.outcome # "skipped" =>
       /\ Len(run.sent) = 1
       /\ run.raised = "" => run.asserted = <<Chosen>>
       /\ run.raised # "" => run.asserted = <<>>

\* A test case that passed the one assertion of its early branch, after
\* its one request.
C4_Witness ==
  /\ Finished
  /\ Len(run.sent) = 1
  /\ run.outcome = "passed"
  /\ EarlyBranch(Tests[cur].kind, run.has_scope)
  /\ run.asserted = <<Chosen>>

\* The current test case takes a resource handle, and its fixture has
\* returned one that is None or empty.
HandleUnresolved ==
  /\ pc # "end"
  /\ Tests[cur].fixture # ""
  /\ handles[Tests[cur].fixture].state = "set"
  /\ \/ Same(handles[Tests[cur].fixture].value, NoneV)
     \/ Same(handles[Tests[cur].fixture].value, StrV(<<>>))

\* The current test case has issued no request and has not failed; once it
\* has ended, it is skipped.
SkippedUnsent ==
  /\ run.sent = <<>>
  /\ run.asserted = <<>>
  /\ run.outcome \in {"", "skipped"}
  /\ Finished => run.outcome = "skipped"

\* C5: a missing precondition makes a test case skipped, never failed, and
\* no request is issued for it: with an empty ACCESS_TOKEN every test case
\* of every module is skipped, and with a resource handle that is None or
\* empty every test case that takes it is skipped before any request.
C5_MissingPreconditionSkips ==
  /\ ACCESS_TOKEN = <<>> =>
       /\ SkippedUnsent
       /\ \A f \in Families : reqlog[f] = <<>>
       /\ pc \in {"setup", "done", "end"}
  /\ HandleUnresolved =>
       /\ SkippedUnsent
       /\ pc \in {"setup", "done"}

\* A test case skipped for a resource handle that is the empty string,
\* with a token that has scopes.
C5_Witness ==
  /\ HandleUnresolved
  /\ Same(handles[Tests[cur].fixture].value, StrV(<<>>))
  /\ Finished
  /\ run.outcome = "skipped"
  /\ token_scopes.value # <<>>

\* The token has neither an org_id nor an orgId claim.
NoOrgClaim == ~made.org_id.has /\ ~made.orgId.has

\* C10: for every resource family, when the token carries no organization
\* id (it has no such claim, or get_org_id_from_token found none) the
\* resolver returns None at once, with neither a list request nor a
\* creation request issued.
C10_NoOrganizationNoRequest ==
  \A f \in Families :
    /\ handles[f].state # "unset"
    /\ NoOrgClaim \/ Same(handles[f].org_id, NoneV)
    => /\ handles[f].state = "set"
       /\ Same(handles[f].value, NoneV)
       /\ reqlog[f] = <<>>

\* The user_id fixture has returned None for a token with every scope and
\* no organization id.
C10_Witness ==
  /\ handles["user_id"].state = "set"
  /\ Same(handles["user_id"].value, NoneV)
  /\ reqlog["user_id"] = <<>>
  /\ Contains(token_scopes.value, ScopeUserInvite)
  /\ NoOrgClaim

\* ------------------------------------------------------------------------
\* Properties of the resource fixtures (under Spec)

\* The resource fixture f has got a response to a list request, and the
\* test function that takes f has not been called yet.
HasListed(f) ==
  /\ pc # "end"
  /\ Tests[cur].fixture = f
  /\ frame.listed # <<>>

\* The response to the last list request.
LastListed == frame.listed[Len(frame.listed)]

\* The list a 200 response to a list request of f holds, bare or in an
\* envelope; None when it holds none.
ItemsOf(f, response) ==
  IF response.status # 200 THEN NoneV
  ELSE IF response.data.t = "list" THEN response.data
  ELSE IF response.data.t = "dict" /\ Enveloped(f, response.data).t = "list"
  THEN Enveloped(f, response.data)
  ELSE NoneV

\* The entries of the last listing of f; <<>> when there are none.
Items(f) ==
  IF ItemsOf(f, LastListed).t = "list" THEN ItemsOf(f, LastListed).v ELSE <<>>

\* The requests f has sent with the given method.
SentBy(f, method) == SelectSeq(reqlog[f], LAMBDA q : q.method = method)

\* The member k of the object obj as a string, "" when obj is no object or
\* has no such member, or an empty one.
Member(obj, k) ==
  IF obj.t # "dict" THEN <<>>
  ELSE IF ~DictHas(obj, k) THEN <<>>
  ELSE IF DictGet(obj, k, NoneV).t \in {"str", "num"}
  THEN DictGet(obj, k, NoneV).v
  ELSE <<>>

\* C11: for every resource family, given an organization id and a
\* successful listing whose list is not empty, the resolver returns the
\* first entry's identifier (its id, else its _id) and issues no creation
\* request, with or without the creation scope in the token.
C11_FirstListedIsReturned ==
  \A f \in Families :
    HasListed(f) /\ Items(f) # <<>> =>
      /\ handles[f].state = "set"
      /\ SentBy(f, "POST") = <<>>
      /\ Member(Items(f)[1], KeyId) # <<>> =>
           Same(handles[f].value, StrV(Member(Items(f)[1], KeyId)))
      /\ Member(Items(f)[1], KeyId) = <<>>
         /\ Member(Items(f)[1], KeyUnderId) # <<>> =>
           Same(handles[f].value, StrV(Member(Items(f)[1], KeyUnderId)))

\* user_id has returned the _id of the first user listed, for a token with
\* the scope user:invite, without a creation request.
C11_Witness ==
  /\ HasListed("user_id")
  /\ Len(Items("user_id")) = 2
  /\ Member(Items("user_id")[1], KeyId) = <<>>
  /\ Same(handles["user_id"].value, StrV(<<"r", "2">>))
  /\ Contains(token_scopes.value, ScopeUserInvite)
  /\ SentBy("user_id", "POST") = <<>>

\* The token has the creation scope of the family: team:write,
\* usergroup:write, user:invite.
HasCreationScope(f) ==
  \/ f = "team_id" /\ Contains(token_scopes.value, ScopeTeamWrite)
  \/ f = "group_id" /\ Contains(token_scopes.value, ScopeUsergroupWrite)
  \/ f = "user_id" /\ Contains(token_scopes.value, ScopeUserInvite)

\* The last listing of f is a 200 response that holds an empty list.
EmptyListing(f) ==
  /\ HasListed(f)
  /\ ItemsOf(f, LastListed).t = "list"
  /\ ItemsOf(f, LastListed).v = <<>>

\* C12: for every resource family, given an organization id, an empty
\* listing and a token without the family's creation scope, the resolver
\* returns None and issues no creation (POST) request.
C12_NoScopeNoCreation ==
  \A f \in Families :
    EmptyListing(f) /\ ~HasCreationScope(f) =>
      /\ handles[f].state = "set"
      /\ Same(handles[f].value, NoneV)
      /\ SentBy(f, "POST") = <<>>

\* group_id has returned None after an empty list in an envelope, for a
\* token with the read scopes only.
C12_Witness ==
  /\ EmptyListing("group_id")
  /\ LastListed.data.t = "dict"
  /\ Contains(token_scopes.value, ScopeUsergroupRead)
  /\ ~HasCreationScope("group_id")
  /\ Truthy(handles["group_id"].org_id)
  /\ handles["group_id"].state = "set"
  /\ Same(handles["group_id"].value, NoneV)

\* The resource fixture f has got a response to its creation request, and
\* the test function that takes f has not been called yet.
HasCreated(f) ==
  /\ pc # "end"
  /\ Tests[cur].fixture = f
  /\ frame.created # <<>>

\* The identifier of an object: its id, else its _id, "" without either.
IdText(obj) ==
  IF Member(obj, KeyId) # <<>> THEN Member(obj, KeyId)
  ELSE Member(obj, KeyUnderId)

\* The identifier in the body of a creation response: that of the body or,
\* when the body is an envelope, that of the object under 'data'.
NewId(data) ==
  IF data.t = "dict" /\ DictHas(data, KeyData)
  THEN IdText(DictGet(data, KeyData, NoneV))
  ELSE IdText(data)

\* C13: for every resource family, when the creation request succeeds with
\* any 2xx status, the resolver returns the identifier of the new resource,
\* read from the id or _id of the response body or, when the body is an
\* envelope, of the object one level inside it.
C13_CreatedIdIsReturned ==
  \A f \in Families :
    /\ HasCreated(f)
    /\ 200 <= frame.created[1].status
    /\ frame.created[1].status < 300
    /\ NewId(frame.created[1].data) # <<>>
    => /\ handles[f].state = "set"
       /\ Same(handles[f].value, StrV(NewId(frame.created[1].data)))

\* The except clause of the resource fixture f has caught an exception, in
\* this module.
HasCaught(f) == reqlog[f] # <<>> /\ frame.caught # ""

\* C14: for every resource family, a failure raised while resolving (a
\* transport failure of the list or creation request, or a response body
\* of an unexpected shape) is absorbed: the resolver returns None, and the
\* session goes on with the test cases that take the handle skipped, not
\* failed, before any request.
C14_ResolverFailureIsAbsorbed ==
  \A f \in Families :
    HasCaught(f) =>
      /\ handles[f].state = "set"
      /\ Same(handles[f].value, NoneV)
      /\ pc # "end"
      /\ Tests[cur].fixture = f => SkippedUnsent /\ pc \in {"setup", "done"}

\* A test case that takes user_id has been skipped after the creation
\* request of user_id was refused.
C14_Witness ==
  /\ HasCaught("user_id")
  /\ frame.caught = "Connection refused"
  /\ Len(SentBy("user_id", "POST")) = 1
  /\ Tests[cur].fixture = "user_id"
  /\ Finished
  /\ run.outcome = "skipped"

\* The requests f has sent to list its resources, without (qualified =
\* FALSE) or with the organization in the query.
ListsBy(f, qualified) ==
  SelectSeq(reqlog[f],
            LAMBDA q : q.method = "GET" /\ (Truthy(q.url.orgId) <=> qualified))

\* The module whose test cases take the handle f.
ModuleOf(f) ==
  CASE f = "team_id"  -> "test_teams_scopes"
    [] f = "group_id" -> "test_user_groups_scopes"
    [] OTHER          -> "test_users_scopes"

\* Each request of a resolver has been sent at most once, and only in the
\* module of its family; a test case that takes the handle sends the
\* cached value.
ResolvedOnce ==
  \A f \in Families :
    /\ Len(ListsBy(f, FALSE)) <= 1
    /\ Len(ListsBy(f, TRUE)) <= 1
    /\ Len(SentBy(f, "POST")) <= 1
    /\ \A i \in DOMAIN Tests : Tests[i].fixture = f => Tests[i].module = ModuleOf(f)
    /\ reqlog[f] # <<>> \/ handles[f].state # "unset" =>
         pc # "end" /\ Tests[cur].module = ModuleOf(f)
    /\ pc # "end" /\ Tests[cur].fixture = f =>
         \A i \in DOMAIN run.sent :
           Same(run.sent[i].url.id, handles[f].value)

\* A handle that is resolved stays as it is, a cached None included, and
\* no request of its resolver follows, until the last test case of the
\* module has ended.
StaysResolved ==
  \A f \in Families :
    handles[f].state = "set" =>
      \/ handles'[f] = handles[f] /\ reqlog'[f] = reqlog[f]
      \/ /\ pc = "done"
         /\ cur = Len(Tests) \/ Tests[cur + 1].module # Tests[cur].module

\* C15: in one session each family's handle is resolved at most once: each
\* request of the resolver (list, list with the organization, creation) is
\* issued at most once per family, so at most one resource per family is
\* created, and every test case of the family gets the same cached handle,
\* a cached None included.
C15_ResolvedOncePerSession == []ResolvedOnce /\ [][StaysResolved]_vars

\* The last test case of test_users_scopes has sent its request with the
\* handle user_id created, after one list and one creation request.
C15_Witness ==
  /\ pc = "done"
  /\ cur = Len(Tests)
  /\ Len(reqlog["user_id"]) = 2
  /\ Len(SentBy("user_id", "POST")) = 1
  /\ Same(handles["user_id"].value, StrV(<<"n", "1">>))
  /\ Len(run.sent) = 1
  /\ Same(run.sent[1].url.id, StrV(<<"n", "1">>))

\* ------------------------------------------------------------------------
\* Properties of make_request (under SpecRequest)

GotRequest == call.fn = "make_request"

\* The round trip of the call was completed: there is a response.
Answered == GotRequest /\ call.net.kind \in {"response", "body"}

\* The data of the response: the JSON value of its body, or its text when
\* the body is no JSON document.
DataOf(net, body) ==
  IF net.kind = "response" THEN net.data
  ELSE IF body.doc.has THEN body.doc.val
  ELSE StrV(body.text)

\* C16: make_request issues exactly one HTTP request per call, without
\* retry, and whenever the round trip is completed it returns the status
\* code of the response and its data (the parsed JSON, or the raw text
\* when parsing fails) for every status code, 4xx and 5xx included; the
\* status code never makes it raise or return something else.
C16_OneRequestAndEveryStatusReturned ==
  GotRequest =>
    /\ call.out.wire = <<call.request>>
    /\ Answered =>
         /\ call.out.ok
         /\ call.out.val.status = call.net.status
         /\ Same(call.out.val.data, DataOf(call.net, call.body.val))

\* make_request has returned a 500 response with its text, which is no
\* JSON.
C16_Witness ==
  /\ Answered
  /\ call.net.kind = "body"
  /\ call.net.status = 500
  /\ call.out.ok
  /\ call.out.val.status = 500
  /\ Same(call.out.val.data, TextBody)

\* C17: when make_request cannot complete the round trip it raises and
\* returns nothing: a connection failure as a failure of its own kind that
\* carries the URL, every other transport error as a generic failure that
\* wraps the original cause; the caller can tell the two apart.
C17_FailuresAreRaisedByKind ==
  GotRequest /\ ~Answered =>
    /\ ~call.out.ok
    /\ call.out.val = <<>>
    /\ IF call.net.kind = "ConnectionError"
       THEN /\ call.out.err = "Connection refused"
            /\ call.out.msg[1] = "Connection refused to "
            /\ call.out.msg[2] = call.request.url
       ELSE /\ call.out.err = "Request failed"
            /\ call.out.msg[1] = "Request failed: "
            /\ call.out.msg[2] = call.net.cause

\* make_request has raised for a refused connection, with the URL of the
\* list request with the organization in its message.
C17_Witness ==
  /\ GotRequest
  /\ call.net.kind = "ConnectionError"
  /\ ~call.out.ok
  /\ call.out.err = "Connection refused"
  /\ call.request = FixtureRequest("team_id", "list_org", StrV(<<"X">>))
  /\ call.out.msg[2] = call.request.url

\* ------------------------------------------------------------------------
\* Diagnostics (under SpecDecode, and under Spec for the fixtures)

\* The first test case that takes the handle f, for which the fixture runs.
FirstTaking(f) ==
  CHOOSE i \in DOMAIN Tests :
    Tests[i].fixture = f /\ \A j \in 1..(i - 1) : Tests[j].fixture # f

\* C18: no error is absorbed without a diagnostic: whenever the token
\* decoder (get_scopes_from_token, get_org_id_from_token) or a resolver
\* catches an exception and returns its empty or None result, it has
\* printed a diagnostic message.
C18_NoErrorAbsorbedSilently ==
  /\ call.fn \in {"get_scopes_from_token", "get_org_id_from_token"}
     /\ call.out.caught # "" => call.out.printed
  /\ \A f \in Families :
       HasCaught(f) /\ cur = FirstTaking(f) => FixtureDiagnostic(f) \in stdout

\* ------------------------------------------------------------------------
\* Properties of the order of a resolver's requests (under Spec)

\* f has returned, every list request it sent was answered, and the last
\* listing holds no resource: its status is no 200, its list is empty, or
\* its body holds no list.
ListedNothing(f) ==
  /\ HasListed(f)
  /\ handles[f].state = "set"
  /\ Len(frame.listed) = Len(SentBy(f, "GET"))
  /\ Items(f) = <<>>

\* The creation request of f is never its first request.
CreatesAfterListing(f) ==
  \A i \in DOMAIN reqlog[f] :
    reqlog[f][i].method = "POST" => i > 1 /\ reqlog[f][1].method = "GET"

\* C19: for every resource family, whenever an organization id is
\* available, the listing yields no usable resource (a list status other
\* than 200, an empty list, or a 200 response whose body holds no list)
\* and the token has the family's creation scope, the resolver issues
\* exactly one creation request, after the list request and never before.
C19_CreatesOnceAfterEmptyListing ==
  \A f \in Families :
    /\ CreatesAfterListing(f)
    /\ ListedNothing(f) /\ Truthy(handles[f].org_id) /\ HasCreationScope(f) =>
         Len(SentBy(f, "POST")) = 1

\* C20: the team resolver issues the list request with the organization
\* (orgId in the query) only after the list request without it returned a
\* status other than 200; it issues at most two list requests, and when it
\* has asked again, the response it extracts the handle from is the one to
\* the request with the organization.
C20_TeamListsAgainAfterFailure ==
  /\ Len(SentBy("team_id", "GET")) <= 2
  /\ \A i \in DOMAIN reqlog["team_id"] :
       /\ reqlog["team_id"][i].method = "GET"
       /\ Truthy(reqlog["team_id"][i].url.orgId)
       => /\ i = 2
          /\ reqlog["team_id"][1].method = "GET"
          /\ ~Truthy(reqlog["team_id"][1].url.orgId)
          /\ HasListed("team_id") => frame.listed[1].status # 200
  /\ /\ HasListed("team_id")
     /\ Len(frame.listed) = 2
     /\ Items("team_id") # <<>>
     /\ IdText(Items("team_id")[1]) # <<>>
     => /\ handles["team_id"].state = "set"
        /\ Same(handles["team_id"].value, StrV(IdText(Items("team_id")[1])))

\* team_id has returned the id of the team listed in the answer to its
\* second list request, the first one answered 404.
C20_Witness ==
  /\ HasListed("team_id")
  /\ Len(frame.listed) = 2
  /\ frame.listed[1].status = 404
  /\ frame.listed[2].status = 200
  /\ Len(ListsBy("team_id", TRUE)) = 1
  /\ Same(reqlog["team_id"][2].url.orgId, StrV(<<"X">>))
  /\ Same(handles["team_id"].value, StrV(<<"r", "1">>))

\* ------------------------------------------------------------------------
\* scripts/run_tests_with_auth.py: main() starts the OAuth client server,
\* waits for a token, saves it to .env, runs the tests and stops the server

\* start_server: max_wait = 10
start_server_max_wait == 10

\* def wait_for_token(max_wait=120)
wait_for_token_max_wait == 120

\* wait_for_token: len(token) > 50
page_token_min_len == 50

KeyAccessToken ==
  <<"a", "c", "c", "e", "s", "s", "_", "t", "o", "k", "e", "n">>

\* The .env files main() is started with.
EnvFiles ==
  {[exists |-> FALSE, CLIENT_ID |-> FALSE, ACCESS_TOKEN |-> NoneV]}
  \cup {[exists |-> TRUE, CLIENT_ID |-> c, ACCESS_TOKEN |-> t] :
          c \in BOOLEAN, t \in {NoneV, StrV(<<"o", "l", "d">>)}}

\* What requests.get(f'{SERVER_URL}/', timeout=1) does while the server
\* starts: a response, or an exception (KeyboardInterrupt is one).
StartAnswers ==
  {Answer(200, NoneV), Answer(500, NoneV), Refused,
   [kind |-> "KeyboardInterrupt", status |-> 0, data |-> NoneV,
    cause |-> ""]}

\* What time.sleep(1) does: it returns, or the user interrupts it.
Sleeps == {"slept", "KeyboardInterrupt"}

\* What GET /api/token answers: no token yet (404), a token, an empty or
\* missing token, a body that is no object, or no answer.
ApiAnswers ==
  {Answer(404, NoneV),
   Answer(200, DictV(<<Pair(KeyAccessToken, StrV(<<"t", "k">>))>>)),
   Answer(404, DictV(<<Pair(KeyAccessToken, StrV(<<"t", "k">>))>>)),
   Answer(200, DictV(<<Pair(KeyAccessToken, StrV(<<>>))>>)),
   Answer(200, DictV(<<>>)),
   Answer(200, ListV(<<>>)),
   Refused}

\* What GET / answers: the text of the page's <div class="token">, if it
\* has one (re.search), or no answer.
PageAnswers ==
  {[kind |-> "response", status |-> 200, match |-> Absent],
   [kind |-> "response", status |-> 200,
    match |-> Present(Repeat("t", page_token_min_len + 1))],
   [kind |-> "response", status |-> 200,
    match |-> Present(<<" ">> \o Repeat("t", page_token_min_len) \o <<" ">>)],
   [kind |-> "response", status |-> 200, match |-> Present(<<" ">>)],
   [kind |-> "response", status |-> 500,
    match |-> Present(Repeat("t", page_token_min_len + 1))],
   [kind |-> "ConnectionError", status |-> 0, match |-> Absent]}

\* The return codes of pytest.
ReturnCodes == {0, 1, 2, 5}

\* An exception on its way out of main's try block.
SystemExit(code) == [kind |-> "SystemExit", code |-> code]

KeyboardInterrupt == [kind |-> "KeyboardInterrupt", code |-> 0]

OSError == [kind |-> "Exception", code |-> 0]

\* main's except clauses: KeyboardInterrupt is caught and main returns;
\* any other Exception ends in sys.exit(1); SystemExit is not caught.
ExitStatus(raised) ==
  CASE raised.kind = "SystemExit"        -> raised.code
    [] raised.kind = "KeyboardInterrupt" -> 0
    [] OTHER                             -> 1

ExceptPrinted(raised) ==
  CASE raised.kind = "SystemExit"        -> {}
    [] raised.kind = "KeyboardInterrupt" -> {"Interrupted by user"}
    [] OTHER                             -> {"Error"}

\* main after `raised` has left the try block and the except clause, if
\* any, has run: the finally clause is next.
Unwound(m, raised) ==
  [m EXCEPT !.pc = "finally",
            !.status = ExitStatus(raised),
            !.printed = @ \cup ExceptPrinted(raised)]

\* main up to subprocess.Popen in start_server: without .env or CLIENT_ID
\* it exits before the try block.
main_begin(m, popen) ==
  IF ~m.env_file.exists
  THEN [m EXCEPT !.pc = "done", !.status = 1,
                 !.printed = @ \cup {".env file not found!"}]
  ELSE IF ~m.env_file.CLIENT_ID
  THEN [m EXCEPT !.pc = "done", !.status = 1,
                 !.printed = @ \cup {"CLIENT_ID not found in .env file!"}]
  ELSE IF popen = "started"
  THEN [m EXCEPT !.pc = "start_server", !.i = 0, !.process = "running"]
  ELSE Unwound(m, OSError)

\* One turn of start_server's loop, or its end: a 200 returns the process
\* to main, which binds server_process; an exception of requests.get is
\* followed by time.sleep(1); after max_wait turns the process is
\* terminated and the script exits with 1.
start_server(m, answer, sleep) ==
  IF m.i >= start_server_max_wait
  THEN Unwound([m EXCEPT !.process = "terminated",
                         !.printed = @ \cup {"Server failed to start"}],
               SystemExit(1))
  ELSE IF answer.kind = "response"
  THEN IF answer.status = 200
       THEN [m EXCEPT !.pc = "browser", !.server_process = TRUE,
                      !.printed = @ \cup {"Server started successfully!"}]
       ELSE [m EXCEPT !.i = @ + 1]
  ELSE IF sleep = "slept"
  THEN [m EXCEPT !.i = @ + 1]
  ELSE Unwound(m, KeyboardInterrupt)

\* webbrowser.open(login_url)
open_browser(m, opened) ==
  IF opened THEN [m EXCEPT !.pc = "wait_for_token", !.i = 0]
  ELSE Unwound(m, OSError)

\* wait_for_token: data.get('access_token') of a 200 from /api/token; any
\* exception is passed over.
ApiToken(answer) ==
  IF answer.kind = "response" /\ answer.status = 200 /\ answer.data.t = "dict"
  THEN DictGet(answer.data, KeyAccessToken, NoneV)
  ELSE NoneV

\* wait_for_token: match.group(1).strip() of a 200 from /, when it is
\* longer than 50 characters.
PageToken(answer) ==
  IF answer.kind = "response" /\ answer.status = 200 /\ answer.match.has
  THEN IF Len(str_strip(answer.match.val)) > page_token_min_len
       THEN StrV(str_strip(answer.match.val))
       ELSE NoneV
  ELSE NoneV

\* main with the token wait_for_token returned.
GotToken(m, token) ==
  [m EXCEPT !.pc = "update_env_token", !.token = token,
            !.printed = @ \cup {"Token received!"}]

\* One turn of wait_for_token's loop, or its end: after max_wait turns it
\* returns None and main exits with 1.
wait_for_token(m, api, page, sleep) ==
  IF m.i >= wait_for_token_max_wait
  THEN Unwound([m EXCEPT !.printed = @ \cup {"Timeout waiting for token",
                                             "Failed to get token"}],
               SystemExit(1))
  ELSE IF Truthy(ApiToken(api)) THEN GotToken(m, ApiToken(api))
  ELSE IF Truthy(PageToken(page)) THEN GotToken(m, PageToken(page))
  ELSE IF sleep = "slept" THEN [m EXCEPT !.i = @ + 1]
  ELSE Unwound(m, KeyboardInterrupt)

\* update_env_token(token): the ACCESS_TOKEN line of .env is replaced or
\* added, unless the file cannot be written.
update_env_token(m, written) ==
  IF written
  THEN [m EXCEPT !.pc = "run_tests",
                 !.saved = Append(@, str_of(m.token)),
                 !.env_file = [@ EXCEPT !.exists = TRUE,
                                        !.ACCESS_TOKEN = str_of(m.token)],
                 !.printed = @ \cup {"Token saved to .env"}]
  ELSE Unwound(m, OSError)

\* run_tests() and sys.exit(test_result): pytest cannot be started, or it
\* is interrupted (noted as -2, the child killed by SIGINT), or it ends
\* with a return code.
run_tests(m, result) ==
  IF result.kind = "Exception" THEN Unwound(m, OSError)
  ELSE IF result.kind = "KeyboardInterrupt"
  THEN Unwound([m EXCEPT !.tests = Append(@, -2)], KeyboardInterrupt)
  ELSE Unwound([m EXCEPT !.tests = Append(@, result.code),
                         !.printed = @ \cup {IF result.code = 0
                                             THEN "All tests passed!"
                                             ELSE "Some tests failed"}],
               SystemExit(result.code))

\* main's finally clause: if server_process: terminate(), wait(timeout=5),
\* and kill() when the wait fails.
main_finally(m, waited) ==
  IF m.server_process
  THEN [m EXCEPT !.pc = "done",
                 !.process = IF waited THEN "terminated" ELSE "killed",
                 !.printed = @ \cup {"Stopping server..."}]
  ELSE [m EXCEPT !.pc = "done"]

MainInit ==
  /\ main \in {[NoMain EXCEPT !.pc = "main", !.env_file = e] : e \in EnvFiles}
  /\ made = Make(<<>>, "single", Absent, Absent, Absent, "urlsafe", "empty")
  /\ ACCESS_TOKEN = IssueToken(made)
  /\ call = NoCall
  /\ SessionIdle

MainBegin ==
  /\ main.pc = "main"
  /\ \E popen \in {"started", "OSError"} : main' = main_begin(main, popen)
  /\ UNCHANGED <<made, ACCESS_TOKEN, call, session>>

StartServer ==
  /\ main.pc = "start_server"
  /\ \E answer \in StartAnswers, sleep \in Sleeps :
       main' = start_server(main, answer, sleep)
  /\ UNCHANGED <<made, ACCESS_TOKEN, call, session>>

OpenBrowser ==
  /\ main.pc = "browser"
  /\ \E opened \in BOOLEAN : main' = open_browser(main, opened)
  /\ UNCHANGED <<made, ACCESS_TOKEN, call, session>>

WaitForToken ==
  /\ main.pc = "wait_for_token"
  /\ \E api \in ApiAnswers, page \in PageAnswers, sleep \in Sleeps :
       main' = wait_for_token(main, api, page, sleep)
  /\ UNCHANGED <<made, ACCESS_TOKEN, call, session>>

UpdateEnvToken ==
  /\ main.pc = "update_env_token"
  /\ \E written \in BOOLEAN : main' = update_env_token(main, written)
  /\ UNCHANGED <<made, ACCESS_TOKEN, call, session>>

RunTests ==
  /\ main.pc = "run_tests"
  /\ \E result \in {SystemExit(rc) : rc \in ReturnCodes}
                   \cup {OSError, KeyboardInterrupt} :
       main' = run_tests(main, result)
  /\ UNCHANGED <<made, ACCESS_TOKEN, call, session>>

MainFinally ==
  /\ main.pc = "finally"
  /\ \E waited \in BOOLEAN : main' = main_finally(main, waited)
  /\ UNCHANGED <<made, ACCESS_TOKEN, call, session>>

MainNext ==
  \/ MainBegin
  \/ StartServer
  \/ OpenBrowser
  \/ WaitForToken
  \/ UpdateEnvToken
  \/ RunTests
  \/ MainFinally

SpecMain == MainInit /\ [][MainNext]_vars

\* ------------------------------------------------------------------------
\* The bootstrap script

\* pytest has been started.
TestsRun == main.tests # <<>>

\* The tests are run only after a token has been received and written to
\* the .env file.
TestsRunAfterTokenSaved ==
  TestsRun =>
    /\ Truthy(main.token)
    /\ main.saved = <<str_of(main.token)>>
    /\ Same(main.env_file.ACCESS_TOKEN, str_of(main.token))

\* wait_for_token gave up.
PollingTimedOut == "Timeout waiting for token" \in main.printed

\* When polling ends without a token, nothing is saved, no test is run and
\* the process exits with status 1.
TimeoutExitsWithoutSaving ==
  PollingTimedOut =>
    /\ main.pc \in {"finally", "done"}
    /\ main.status = 1
    /\ main.saved = <<>>
    /\ ~TestsRun

\* main has exited after subprocess.Popen gave it a server process.
ExitedAfterStart == main.pc = "done" /\ main.process # "none"

\* Once the server process was started, it is terminated before main
\* exits.
ServerStoppedAtExit ==
  ExitedAfterStart => main.process \in {"terminated", "killed"}

\* C21: in the bootstrap script's main, the test suite is run only after a
\* token has been received and written to the .env file; if polling ends
\* without a token the process exits with status 1 without saving anything
\* or running tests; and on every path after the server process was started
\* (success, failure, interruption) the server process is terminated before
\* main exits.
C21_TestsAfterTokenAndServerStopped ==
  /\ TestsRunAfterTokenSaved
  /\ TimeoutExitsWithoutSaving
  /\ ServerStoppedAtExit
=============================================================================
